---- MODULE Spec2Model ----
(***************************************************************************)
(* Model of the binary serialization pair of CeeblueTV/web-utils:          *)
(* BinaryWriter (src/src/BinaryWriter.ts) and BinaryReader                 *)
(* (src/src/BinaryReader.ts).                                              *)
(*                                                                         *)
(* JavaScript numbers that can exceed 2^31 - 1 are kept as two 16-bit      *)
(* limbs [hi, lo] (value = hi * 65536 + lo), so that the 32-bit operators  *)
(* of the code (>>>, <<, |, &, the DataView accessors) keep their width.   *)
(* hi may exceed 65535: such a number is larger than 0xffffffff.           *)
(* Byte buffers are sequences of 0..255; offset i of the code is index     *)
(* i + 1 of the sequence.                                                  *)
(***************************************************************************)
EXTENDS Integers, Sequences, FiniteSets, TLC

VARIABLES writer, wlast, wops, reader, rlast, rops, log, phase,
          bitr, blast, bops, sock, slast, sops, em, elast, eops,
          nums, nlast, nops, rate, tlast, tops

bitVars == <<bitr, blast, bops>>

sockVars == <<sock, slast, sops>>

emitVars == <<em, elast, eops>>

numVars == <<nums, nlast, nops>>

rateVars == <<rate, tlast, tops>>

vars ==
    <<writer, wlast, wops, reader, rlast, rops, log, phase, bitVars, sockVars,
      emitVars, numVars, rateVars>>

\* ------------------------------------------------------------------ bounds

\* Largest exponent e of the sample values 2^e - 1, 2^e, 2^e + 1.
MaxExp == 33
\* Number of operations of one writer run.
MaxWriterOps == 2
\* Number of operations of one reader run.
MaxReaderOps == 3
\* Largest length of the buffers enumerated for a reader.
MaxLen == 2
\* Number of calls of one Numbers run, and the capacity of a limited one.
MaxNumbersOps == 5
MaxCapacity == 2
\* Number of calls and clock steps of one ByteRate run.
MaxRateOps == 5
\* Number of calls of one EventEmitter run.
MaxEmitterOps == 4
\* Number of calls and socket events of one WebSocketReliable run.
MaxSocketOps == 4
\* Number of operations of one bit reader run.
MaxBitOps == 3
\* Largest length of the strings enumerated for a string round trip.
MaxStrLen == 2
\* Largest initial capacity of a writer built with a small buffer.
MaxCap == 3
\* Number of values written after the first one in a round trip.
MaxTail == 1

\* Default capacity of new BinaryWriter().
DefaultCapacity == 64

\* ------------------------------------------------------------- arithmetic

RECURSIVE Pow2(_)
Pow2(n) == IF n = 0 THEN 1 ELSE 2 * Pow2(n - 1)

\* Bitwise or / and of two naturals below 2^31.
RECURSIVE BitOr(_, _)
BitOr(a, b) ==
    IF a = 0 THEN b
    ELSE IF b = 0 THEN a
    ELSE (IF a % 2 = 1 \/ b % 2 = 1 THEN 1 ELSE 0) + (2 * BitOr(a \div 2, b \div 2))

RECURSIVE BitAnd(_, _)
BitAnd(a, b) ==
    IF a = 0 \/ b = 0 THEN 0
    ELSE (IF a % 2 = 1 /\ b % 2 = 1 THEN 1 ELSE 0) + (2 * BitAnd(a \div 2, b \div 2))

\* Largest length i of the zero prefix that readExpGolomb decodes ("i > 15").
ExpGolombMax == 15

\* A JavaScript number that is a non-negative integer, as two limbs.
Num(hi, lo) == [hi |-> hi, lo |-> lo]
\* The number n, for 0 <= n < 2^31.
N(n) == Num(n \div 65536, n % 65536)
\* NaN: every comparison with it is false, and its integer conversions give 0.
NaN == [hi |-> -1, lo |-> 0]
U32Max == Num(65535, 65535)

\* a > b of JavaScript.
NumGT(a, b) ==
    /\ a # NaN
    /\ b # NaN
    /\ \/ a.hi > b.hi
       \/ a.hi = b.hi /\ a.lo > b.lo

\* ToUint32 of ECMAScript: the number modulo 2^32.
ToUint32(v) == IF v = NaN THEN N(0) ELSE Num(v.hi % 65536, v.lo)

\* v >>> b of JavaScript: ToUint32(v) shifted right by b mod 32 bits.
ShiftRightU(v, b) ==
    LET u == ToUint32(v)
        s == b % 32
    IN  IF s >= 16
        THEN Num(0, u.hi \div Pow2(s - 16))
        ELSE Num(u.hi \div Pow2(s),
                 (u.lo \div Pow2(s)) + ((u.hi % Pow2(s)) * Pow2(16 - s)))

\* (v << b) >>> 0 of JavaScript, for 0 <= b <= 16: the low 32 bits of v * 2^b.
ShiftLeftU(v, b) ==
    LET u == ToUint32(v)
    IN  Num(((u.hi % Pow2(16 - b)) * Pow2(b)) + (u.lo \div Pow2(16 - b)),
            (u.lo % Pow2(16 - b)) * Pow2(b))

\* The four bytes of ToUint32(v), most significant first.
BytesOf32(v) ==
    LET u == ToUint32(v)
    IN  <<u.hi \div 256, u.hi % 256, u.lo \div 256, u.lo % 256>>

\* ------------------------------------------------------------ BinaryWriter

\* A writer: the Uint8Array _data (its length is the capacity), _size,
\* _isConst, the number of buffers reserve() allocated, and how the call in
\* progress ended: "ok", "threw" (an Error was raised) or "hung" (the call
\* never returns).
Writer(data, size, isConst) ==
    [data |-> data, size |-> size, isConst |-> isConst, allocs |-> 0, status |-> "ok"]

Zeros(n) == [i \in 1..n |-> 0]

\* new BinaryWriter(size)
NewWriter(size) == Writer(Zeros(size), 0, FALSE)
\* new BinaryWriter(typedArray): appends to the existing data
AppendWriter(bytes) == Writer(bytes, Len(bytes), FALSE)
\* new BinaryWriter(arrayBuffer, offset, length): fixed storage
ConstWriter(bytes) == Writer(bytes, 0, TRUE)

capacity(w) == Len(w.data)

\* size(): this._size || 0
BinaryWriter_size(w) == w.size

\* data(): the first _size bytes of the buffer
BinaryWriter_data(w) == SubSeq(w.data, 1, w.size)

Throw(w) == [w EXCEPT !.status = "threw"]

\* reserve() without its "--size": a size that is a power of two doubles.
GrowTo_NoDecrement(size) ==
    LET s0 == size
        s1 == BitOr(s0, s0 \div 2)
        s2 == BitOr(s1, s1 \div 4)
        s3 == BitOr(s2, s2 \div 16)
        s4 == BitOr(s3, s3 \div 256)
        s5 == BitOr(s4, s4 \div 65536)
    IN  s5 + 1

\* The power of two computed by the shifts of reserve().
GrowTo(size) ==
    LET s0 == size - 1
        s1 == BitOr(s0, s0 \div 2)
        s2 == BitOr(s1, s1 \div 4)
        s3 == BitOr(s2, s2 \div 16)
        s4 == BitOr(s3, s3 \div 256)
        s5 == BitOr(s4, s4 \div 65536)
    IN  s5 + 1

reserve(w, size) ==
    IF w.status # "ok" THEN w
    ELSE IF size <= Len(w.data) THEN w
    ELSE IF w.isConst THEN Throw(w)
    ELSE [w EXCEPT !.data = w.data \o Zeros(GrowTo(size) - Len(w.data)),
                   !.allocs = w.allocs + 1]

\* this._data[index] = byte: a store outside the array is dropped.
Store(w, index, byte) ==
    IF index >= 0 /\ index < Len(w.data)
    THEN [w EXCEPT !.data[index + 1] = byte]
    ELSE w

\* ToUint8 of a number.
ToUint8(v) == IF v = NaN THEN 0 ELSE v.lo % 256

next(w, count) ==
    reserve([w EXCEPT !.size = w.size + count], w.size + count)

clear(w, size) ==
    reserve([w EXCEPT !.size = size], size)

RECURSIVE StoreAll(_, _, _)
StoreAll(w, index, bytes) ==
    IF bytes = <<>> THEN w
    ELSE StoreAll(Store(w, index, Head(bytes)), index + 1, Tail(bytes))

\* write(data): data is [str |-> TRUE, items |-> char codes] for a string and
\* [str |-> FALSE, items |-> bytes] for an array.
write(w, data) ==
    LET r == reserve(w, w.size + Len(data.items))
        bytes == IF data.str
                 THEN [i \in 1..Len(data.items) |->
                         IF data.items[i] > 255 THEN 32 ELSE data.items[i]]
                 ELSE data.items
    IN  IF r.status # "ok" THEN r
        ELSE [StoreAll(r, r.size, bytes) EXCEPT !.size = r.size + Len(bytes)]

\* write8 without the cast to the 8-bit range: the store wraps.
write8_NoClamp(w, value) ==
    LET r == reserve(w, w.size + 1)
    IN  IF r.status # "ok" THEN r
        ELSE [Store(r, r.size, ToUint8(value)) EXCEPT !.size = r.size + 1]

write8(w, value) ==
    LET v == IF NumGT(value, N(255)) THEN N(255) ELSE value
        r == reserve(w, w.size + 1)
    IN  IF r.status # "ok" THEN r
        ELSE [Store(r, r.size, ToUint8(v)) EXCEPT !.size = r.size + 1]

write16(w, value) ==
    LET v == IF NumGT(value, N(65535)) THEN N(65535) ELSE value
        r == reserve(w, w.size + 2)
        b == BytesOf32(v)
    IN  IF r.status # "ok" THEN r
        ELSE [StoreAll(r, r.size, <<b[3], b[4]>>) EXCEPT !.size = r.size + 2]

\* write24 storing value instead of value >> 8 in its first two bytes.
write24_NoShift(w, value) ==
    LET v == IF NumGT(value, N(16777215)) THEN N(16777215) ELSE value
        r == reserve(w, w.size + 3)
        h == BytesOf32(v)
    IN  IF r.status # "ok" THEN r
        ELSE [StoreAll(r, r.size, <<h[3], h[4], ToUint8(v)>>)
                 EXCEPT !.size = r.size + 3]

write24(w, value) ==
    LET v == IF NumGT(value, N(16777215)) THEN N(16777215) ELSE value
        r == reserve(w, w.size + 3)
        h == BytesOf32(ShiftRightU(v, 8))
    IN  IF r.status # "ok" THEN r
        ELSE [StoreAll(r, r.size, <<h[3], h[4], ToUint8(v)>>)
                 EXCEPT !.size = r.size + 3]

write32(w, value) ==
    LET v == IF NumGT(value, U32Max) THEN U32Max ELSE value
        r == reserve(w, w.size + 4)
    IN  IF r.status # "ok" THEN r
        ELSE [StoreAll(r, r.size, BytesOf32(v)) EXCEPT !.size = r.size + 4]

\* The first loop of write7Bit leaving after one step: leading zero groups
\* are written.
SkipZeroGroups_OneStep(value, bits) == bits - 7

\* The loop "while ((bits -= 7) && !(value >>> bits))" of write7Bit, entered
\* with bits > 0 and a multiple of 7: the value of bits when it ends.
RECURSIVE SkipZeroGroups(_, _)
SkipZeroGroups(value, bits) ==
    LET b == bits - 7
    IN  IF b # 0 /\ ShiftRightU(value, b) = N(0)
        THEN SkipZeroGroups(value, b)
        ELSE b

\* The output loops of write7Bit masking the last byte with 0x7f always.
RECURSIVE Emit7Bit_Mask7(_, _, _)
Emit7Bit_Mask7(w, value, bits) ==
    IF w.status # "ok" THEN w
    ELSE IF bits > 1
    THEN Emit7Bit_Mask7(write8(w, N(BitOr(128, ShiftRightU(value, bits).lo % 256))),
                        value, bits - 7)
    ELSE write8(w, N(BitAnd(ToUint32(value).lo, 127)))

\* The two output loops of write7Bit.
RECURSIVE Emit7Bit(_, _, _)
Emit7Bit(w, value, bits) ==
    IF w.status # "ok" THEN w
    ELSE IF bits > 1
    THEN Emit7Bit(write8(w, N(BitOr(128, ShiftRightU(value, bits).lo % 256))),
                  value, bits - 7)
    ELSE write8(w, N(BitAnd(ToUint32(value).lo, IF bits # 0 THEN 255 ELSE 127)))

\* write7Bit without "value = 0xffffffff" for a value beyond the range: the
\* low-order bits of the value are written.
write7Bit_NoClamp(w, value, bytes) ==
    IF bytes > 5 THEN Throw(w)
    ELSE IF ~(bytes > 0) THEN Throw(w)
    ELSE LET bits == (bytes - 1) * 7
             front == IF NumGT(value, U32Max) THEN N(256)
                      ELSE ShiftRightU(value, bits)
         IN  IF front # N(0)
             THEN Emit7Bit(w, value, bits + 1)
             ELSE IF bits = 0
             THEN [w EXCEPT !.status = "hung"]
             ELSE Emit7Bit(w, value, SkipZeroGroups(value, bits))

write7Bit(w, value, bytes) ==
    IF bytes > 5 THEN Throw(w)
    ELSE IF ~(bytes > 0) THEN Throw(w)
    ELSE LET bits == (bytes - 1) * 7
             front == IF NumGT(value, U32Max) THEN N(256)
                      ELSE ShiftRightU(value, bits)
         IN  IF front # N(0)
             THEN Emit7Bit(w, IF NumGT(front, N(255)) THEN U32Max ELSE value,
                           bits + 1)
             ELSE IF bits = 0
             \* bits goes -7, -14, ... and is never 0, and value >>> bits is 0
             \* for the value 0: the first loop does not end.
             THEN [w EXCEPT !.status = "hung"]
             ELSE Emit7Bit(w, value, SkipZeroGroups(value, bits))

\* parseInt(s, 16) of a string of at most two characters; NaN when the first
\* character is no hex digit, the first digit alone when the second is none.
HexDigits == <<"0", "1", "2", "3", "4", "5", "6", "7", "8", "9",
               "a", "b", "c", "d", "e", "f">>

HexDigit(c) ==
    IF \E i \in 1..16 : HexDigits[i] = c
    THEN (CHOOSE i \in 1..16 : HexDigits[i] = c) - 1
    ELSE -1

parseIntHex(s) ==
    IF s = <<>> \/ HexDigit(s[1]) = -1 THEN NaN
    ELSE IF Len(s) > 1 /\ HexDigit(s[2]) # -1
    THEN N((16 * HexDigit(s[1])) + HexDigit(s[2]))
    ELSE N(HexDigit(s[1]))

\* writeHex(value): value is a sequence of one-character strings.
RECURSIVE writeHex(_, _)
writeHex(w, value) ==
    IF w.status # "ok" \/ value = <<>> THEN w
    ELSE writeHex(write8(w, parseIntHex(SubSeq(value, 1, IF Len(value) < 2 THEN 1 ELSE 2))),
                  SubSeq(value, 3, Len(value)))

\* writeString() without the length written before the characters.
writeString_NoLength(w, value) == write(w, [str |-> TRUE, items |-> value])

\* writeString(value): value is a sequence of char codes.
writeString(w, value) ==
    LET r == write7Bit(w, N(Len(value)), 5)
    IN  IF r.status # "ok" THEN r
        ELSE write(r, [str |-> TRUE, items |-> value])

\* ------------------------------------------------------------ BinaryReader

\* A reader: the Uint8Array _data (the DataView _view spans all of it), _size,
\* _position, and how the call in progress ended ("ok", "threw", "hung").
\* new BinaryReader(data)
NewReader(data) ==
    [data |-> data, size |-> Len(data), position |-> 0, status |-> "ok"]

\* What a reader operation yields: the reader after it and the value returned.
Ret(r, v) == [r |-> r, ret |-> v]

NoValue == "none"

RThrow(r) == Ret([r EXCEPT !.status = "threw"], NoValue)

BinaryReader_size(r) == r.size

position(r) == r.position

available(r) == r.size - r.position

reset(r, pos) ==
    [r EXCEPT !.position = IF pos > r.size THEN r.size ELSE pos]

\* shrink() without the test of avail against the bytes left.
shrink_NoGuard(r, avail) ==
    Ret([r EXCEPT !.size = r.position + avail], avail)

shrink(r, avail) ==
    LET rest == r.size - r.position
    IN  IF avail > rest THEN Ret(r, rest)
        ELSE Ret([r EXCEPT !.size = r.position + avail], avail)

\* next() without the clamp of count to the bytes left.
BinaryReader_next_NoClamp(r, count) ==
    Ret([r EXCEPT !.position = r.position + count], count)

BinaryReader_next(r, count) ==
    LET rest == r.size - r.position
        c == IF count > rest THEN rest ELSE count
    IN  Ret([r EXCEPT !.position = r.position + c], c)

\* DataView accessors: a RangeError outside [0, byteLength - width].
InView(r, offset, width) == offset >= 0 /\ offset + width <= Len(r.data)

getUint8(r, offset) == N(r.data[offset + 1])

getUint16(r, offset) == N((r.data[offset + 1] * 256) + r.data[offset + 2])

getUint32(r, offset) ==
    Num((r.data[offset + 1] * 256) + r.data[offset + 2],
        (r.data[offset + 3] * 256) + r.data[offset + 4])

\* An IEEE 754 number by its fields: sign, biased exponent, mantissa bytes.
getFloat32(r, offset) ==
    [sign |-> r.data[offset + 1] \div 128,
     exp |-> ((r.data[offset + 1] % 128) * 2) + (r.data[offset + 2] \div 128),
     man |-> <<r.data[offset + 2] % 128, r.data[offset + 3], r.data[offset + 4]>>]

getFloat64(r, offset) ==
    [sign |-> r.data[offset + 1] \div 128,
     exp |-> ((r.data[offset + 1] % 128) * 16) + (r.data[offset + 2] \div 16),
     man |-> <<r.data[offset + 2] % 16>> \o SubSeq(r.data, offset + 3, offset + 8)]

read8(r) ==
    LET n == BinaryReader_next(r, 1)
    IN  IF n.ret # 1 THEN Ret(n.r, N(0))
        ELSE IF ~InView(n.r, n.r.position - 1, 1) THEN RThrow(n.r)
        ELSE Ret(n.r, getUint8(n.r, n.r.position - 1))

read16(r) ==
    LET n == BinaryReader_next(r, 2)
    IN  IF n.ret # 2 THEN Ret(n.r, N(0))
        ELSE IF ~InView(n.r, n.r.position - 2, 2) THEN RThrow(n.r)
        ELSE Ret(n.r, getUint16(n.r, n.r.position - 2))

read24(r) ==
    LET n == BinaryReader_next(r, 3)
    IN  IF n.ret # 3 THEN Ret(n.r, N(0))
        ELSE IF ~InView(n.r, n.r.position - 3, 3) THEN RThrow(n.r)
        ELSE Ret(n.r,
                 LET h == getUint16(n.r, n.r.position - 3)
                     l == getUint8(n.r, n.r.position - 1)
                 IN  Num(h.lo \div 256, ((h.lo % 256) * 256) + (l.lo % 256)))

read32(r) ==
    LET n == BinaryReader_next(r, 4)
    IN  IF n.ret # 4 THEN Ret(n.r, N(0))
        ELSE IF ~InView(n.r, n.r.position - 4, 4) THEN RThrow(n.r)
        ELSE Ret(n.r, getUint32(n.r, n.r.position - 4))

readFloat(r) ==
    LET n == BinaryReader_next(r, 4)
    IN  IF n.ret # 4 THEN Ret(n.r, N(0))
        ELSE IF ~InView(n.r, n.r.position - 4, 4) THEN RThrow(n.r)
        ELSE Ret(n.r, getFloat32(n.r, n.r.position - 4))

readDouble(r) ==
    LET n == BinaryReader_next(r, 8)
    IN  IF n.ret # 8 THEN Ret(n.r, N(0))
        ELSE IF ~InView(n.r, n.r.position - 8, 8) THEN RThrow(n.r)
        ELSE Ret(n.r, getFloat64(n.r, n.r.position - 8))

\* The do-while loop of read7Bit, entered with the bytes still allowed.
RECURSIVE Read7BitLoop(_, _, _)
Read7BitLoop(r, result, bytes) ==
    LET b == read8(r)
    IN  IF b.r.status # "ok" THEN b
        ELSE IF bytes - 1 = 0
        THEN Ret(b.r, LET s == ShiftLeftU(result, 8)
                      IN  Num(s.hi, s.lo + b.ret.lo))
        ELSE LET s == ShiftLeftU(result, 7)
                 acc == Num(s.hi, s.lo + (b.ret.lo % 128))
             IN  IF b.ret.lo >= 128
                 THEN Read7BitLoop(b.r, acc, bytes - 1)
                 ELSE Ret(b.r, acc)

read7Bit(r, bytes) ==
    IF bytes > 5 THEN RThrow(r)
    ELSE IF ~(bytes > 0) THEN RThrow(r)
    ELSE Read7BitLoop(r, N(0), bytes)

\* subarray(begin, end) of a typed array: negative indexes count from the end.
RelIndex(len, i) ==
    IF i < 0 THEN (IF len + i < 0 THEN 0 ELSE len + i)
    ELSE IF i > len THEN len ELSE i

subarray(data, begin, end) ==
    SubSeq(data, RelIndex(Len(data), begin) + 1, RelIndex(Len(data), end))

\* read(size); new Uint8Array(size) raises a RangeError for a negative size.
read(r, size) ==
    IF available(r) < size
    THEN IF size < 0 THEN RThrow(r) ELSE Ret(r, Zeros(size))
    ELSE Ret([r EXCEPT !.position = r.position + size],
             subarray(r.data, r.position, r.position + size))

\* readHex(size): the hex digits as a sequence of one-character strings. The
\* loop "while (size--)" does not end for a negative size.
RECURSIVE readHex(_, _)
readHex(r, size) ==
    IF size < 0 THEN Ret([r EXCEPT !.status = "hung"], NoValue)
    ELSE IF size = 0 THEN Ret(r, <<>>)
    ELSE LET b == read8(r)
         IN  IF b.r.status # "ok" THEN b
             ELSE LET rest == readHex(b.r, size - 1)
                  IN  IF rest.r.status # "ok" THEN rest
                      ELSE Ret(rest.r,
                               <<HexDigits[(b.ret.lo \div 16) + 1],
                                 HexDigits[(b.ret.lo % 16) + 1]>> \o rest.ret)

\* readString(): String.fromCharCode(...read(read7Bit())). The string is the
\* sequence of its char codes; a string of n NUL characters, read past the
\* end, is kept by its length as [nul |-> n].
readString(r) ==
    LET n == read7Bit(r, 5)
    IN  IF n.r.status # "ok" THEN n
        ELSE IF n.ret.hi > 0 \/ available(n.r) < n.ret.lo
        THEN Ret(n.r, [nul |-> n.ret])
        ELSE read(n.r, n.ret.lo)

\* The value undefined of JavaScript.
Undefined == [undefined |-> TRUE]

\* value(position): _data[position] is undefined outside the array.
value(r, pos) ==
    IF pos >= 0 /\ pos < Len(r.data) THEN N(r.data[pos + 1]) ELSE Undefined

\* --------------------------------------------------------------- BitReader

\* A bit reader (src/src/BitReader.ts): the Uint8Array _data, _size, the byte
\* _position and the _bit inside that byte, bit 0 being the top bit.
\* new BitReader(data)
NewBitReader(data) ==
    [data |-> data, size |-> Len(data), position |-> 0, bit |-> 0]

BitReader_size(b) == b.size

BitReader_available(b) == ((b.size - b.position) * 8) - b.bit

\* The step "if (++_bit === 8) { _bit = 0; ++_position; }" of next and read.
NextBit(b) ==
    IF b.bit + 1 = 8
    THEN [b EXCEPT !.bit = 0, !.position = b.position + 1]
    ELSE [b EXCEPT !.bit = b.bit + 1]

\* next(count): "count--" is true of every count but 0, a negative one too.
\* The loop works on x, the reader x.r with the bits gotten so far, x.ret.
RECURSIVE BitReader_NextLoop(_, _)
BitReader_NextLoop(x, count) ==
    IF x.r.position # x.r.size /\ count # 0
    THEN BitReader_NextLoop(Ret(NextBit(x.r), x.ret + 1), count - 1)
    ELSE x

\* next(count) that returns the bits asked for, not the bits gotten.
BitReader_next_Requested(b, count) ==
    Ret(BitReader_NextLoop(Ret(b, 0), count).r, count)

BitReader_next(b, count) == BitReader_NextLoop(Ret(b, 0), count)

\* x << 1 on the 32-bit signed integer x: bit 30 becomes the sign.
ShiftLeft1(x) ==
    LET low == (x % 1073741824) * 2
    IN  IF (x \div 1073741824) % 2 = 1 THEN (low - 2147483647) - 1 ELSE low

\* The bit the mask 0x80 >> _bit selects in the byte at _position.
CurrentBit(b) ==
    IF BitAnd(b.data[b.position + 1], 128 \div Pow2(b.bit)) # 0 THEN 1 ELSE 0

\* read(count): result is a 32-bit signed integer after "result <<= 1". The
\* loop works on x, the reader x.r with the result so far, x.ret.
RECURSIVE BitReader_ReadLoop(_, _)
BitReader_ReadLoop(x, count) ==
    IF x.r.position # x.r.size /\ count # 0
    THEN BitReader_ReadLoop(Ret(NextBit(x.r), ShiftLeft1(x.ret) + CurrentBit(x.r)),
                            count - 1)
    ELSE x

BitReader_read(b, count) == BitReader_ReadLoop(Ret(b, 0), count)

BitReader_read8(b) == BitReader_read(b, 8)

BitReader_read16(b) == BitReader_read(b, 16)

BitReader_read24(b) == BitReader_read(b, 24)

BitReader_read32(b) == BitReader_read(b, 32)

\* The end of both readExpGolomb: the i bits after the prefix, then the test
\* of i and "result + (1 << i) - 1". This one leaves "(1 << i) - 1" out.
ExpGolombValue_NoOffset(b, i) ==
    LET x == BitReader_read(b, i)
    IN  IF i > ExpGolombMax THEN Ret(x.r, 0) ELSE Ret(x.r, x.ret)

ExpGolombValue(b, i) ==
    LET x == BitReader_read(b, i)
    IN  IF i > ExpGolombMax THEN Ret(x.r, 0)
        ELSE Ret(x.r, (x.ret + Pow2(i)) - 1)

\* The method readExpGolomb() of the class that extends Loggable:
\* while (!this.read()) { if (!this.available()) return 0; ++i; }
\* The loop works on x, the reader x.r with the count i of zero bits, x.ret.
RECURSIVE BitReader_readExpGolombFrom(_)
BitReader_readExpGolombFrom(x) ==
    LET y == BitReader_read(x.r, 1)
    IN  IF y.ret # 0 THEN ExpGolombValue(y.r, x.ret)
        ELSE IF BitReader_available(y.r) = 0 THEN Ret(y.r, 0)
        ELSE BitReader_readExpGolombFrom(Ret(y.r, x.ret + 1))

BitReader_readExpGolomb(b) == BitReader_readExpGolombFrom(Ret(b, 0))

\* The function readExpGolomb(reader) of the class without Loggable:
\* while (reader.available() && !reader.read()) { ++i; }
RECURSIVE readExpGolombFrom(_)
readExpGolombFrom(x) ==
    IF BitReader_available(x.r) = 0 THEN ExpGolombValue(x.r, x.ret)
    ELSE LET y == BitReader_read(x.r, 1)
         IN  IF y.ret # 0 THEN ExpGolombValue(y.r, x.ret)
             ELSE readExpGolombFrom(Ret(y.r, x.ret + 1))

readExpGolomb(b) == readExpGolombFrom(Ret(b, 0))

\* -------------------------------------------------------- WebSocketReliable

\* A WebSocketReliable (src/src/WebSocketReliable.ts): _opened, _closed,
\* _queueing, _queueingBytes and _ws, the index in socks of the WebSocket in
\* use (0: undefined). socks holds every WebSocket the instance created, with
\* its state and whether the handlers set by open() are still on it. trace
\* lists, in order, the messages the platform accepted for transmission and
\* the events fired (onOpen, onClose, onMessage). A message is the sequence of
\* its characters. handed lists every call of the send method of a WebSocket,
\* with the state that WebSocket was in. status tells how the call in
\* progress ended.
\* new WebSocketReliable()
NewSocket ==
    [opened |-> FALSE, closed |-> TRUE, queueing |-> <<>>, queueingBytes |-> 0,
     ws |-> 0, socks |-> <<>>, trace |-> <<>>, handed |-> <<>>, status |-> "ok"]

\* open(url): a new WebSocket, connecting, takes the place of _ws.
open(s) ==
    [s EXCEPT !.closed = FALSE,
              !.socks = Append(@, [state |-> "connecting", handlers |-> TRUE]),
              !.ws = Len(s.socks) + 1]

\* new WebSocketReliable(url)
NewSocketOpen == open(NewSocket)

\* WebSocket.send(message) of the platform: an InvalidStateError while
\* connecting, a transmission when open, nothing once closing or closed.
WebSocket_send(s, message) ==
    LET t == [s EXCEPT !.handed =
                  Append(@, [ws |-> s.ws, state |-> s.socks[s.ws].state])]
    IN  IF s.socks[s.ws].state = "connecting" THEN [t EXCEPT !.status = "threw"]
        ELSE IF s.socks[s.ws].state = "open"
        THEN [t EXCEPT !.trace =
                     Append(@, [ev |-> "send", ws |-> s.ws, message |-> message])]
        ELSE t

\* _send(message)
Private_send(s, message) ==
    IF s.ws = 0 THEN s ELSE WebSocket_send(s, message)

\* send() without the test of _closed.
send_NoClosedTest(s, message, queueing) ==
    IF queueing \/ ~s.opened
    THEN [s EXCEPT !.queueing = Append(@, message),
                   !.queueingBytes = @ + Len(message)]
    ELSE Private_send(s, message)

\* send(message, queueing)
send(s, message, queueing) ==
    IF s.closed THEN [s EXCEPT !.status = "threw"]
    ELSE IF queueing \/ ~s.opened
    THEN [s EXCEPT !.queueing = Append(@, message),
                   !.queueingBytes = @ + Len(message)]
    ELSE Private_send(s, message)

\* The loop of flush(), which an exception of _send leaves.
RECURSIVE SendAll(_, _)
SendAll(s, messages) ==
    IF messages = <<>> \/ s.status # "ok" THEN s
    ELSE SendAll(Private_send(s, Head(messages)), Tail(messages))

\* flush()
flush(s) ==
    LET sent == IF s.ws # 0 THEN SendAll(s, s.queueing) ELSE s
    IN  IF sent.status # "ok" THEN sent
        ELSE [sent EXCEPT !.queueing = <<>>, !.queueingBytes = 0]

\* close(error): the handlers are taken off _ws, which is closed.
close(s, error) ==
    IF s.ws = 0 \/ s.closed THEN s
    ELSE [s EXCEPT !.closed = TRUE,
                   !.socks[s.ws] = [state |-> "closed", handlers |-> FALSE],
                   !.queueing = <<>>,
                   !.queueingBytes = 0,
                   !.trace = Append(@, [ev |-> "onClose", error |-> error]),
                   !.opened = FALSE]

\* ws.onopen
onopen(s) ==
    LET flushed == flush([s EXCEPT !.opened = TRUE])
    IN  IF flushed.status # "ok" THEN flushed
        ELSE [flushed EXCEPT !.trace = Append(@, [ev |-> "onOpen"])]

\* ws.onclose, with the code of the CloseEvent (no reason given)
onclose(s, code) ==
    IF ~s.opened THEN close(s, "connection failed")
    ELSE IF code = 1000 \/ code = 1005 THEN close(s, "shutdown")
    ELSE close(s, "disconnection")

\* ws.onmessage
onmessage(s) == [s EXCEPT !.trace = Append(@, [ev |-> "onMessage"])]

\* ------------------------------------------------------------- EventEmitter

\* An EventEmitter with one event, onTest (src/unnamed/part_005): the default
\* handler defaultEvent of the closure of raise, and the Set events as the
\* sequence of its entries in insertion order. An entry is a function given
\* to on() (kind "fn", known by f) or a wrapper made by once() (kind
\* "wrapper", known by id); it keeps the signal given when it was added.
\* listeners are the abort listeners put on signals, aborted the signals
\* already aborted, calls the handlers invoked so far, in order, each with
\* the number of its raise and the argument.
NewEmitter ==
    [defaultEvent |-> "onTest", events |-> <<>>, wrappers |-> 0,
     listeners |-> <<>>, aborted |-> {}, raises |-> 0, calls |-> <<>>,
     status |-> "ok"]

NoSignal == "none"

\* _event(name): the subscribers of the event, found by its lower-case name.
HasEvent(name) == name \in {"test", "Test", "TEST"}

\* Set.prototype.delete of the entry known by (kind, f, id).
SetDelete(events, entry) ==
    SelectSeq(events, LAMBDA e : ~(e.kind = entry.kind /\ e.f = entry.f /\ e.id = entry.id))

SetHas(events, entry) ==
    \E i \in 1..Len(events) :
        events[i].kind = entry.kind /\ events[i].f = entry.f /\ events[i].id = entry.id

\* Set.prototype.add
SetAdd(events, entry) ==
    IF SetHas(events, entry) THEN events ELSE Append(events, entry)

\* signal.addEventListener('abort', () => events.delete(entry), {once: true}):
\* a signal already aborted never dispatches abort again.
AddAbortListener(s, signal, entry) ==
    IF signal = NoSignal \/ signal \in s.aborted THEN s
    ELSE [s EXCEPT !.listeners = Append(@, [signal |-> signal, entry |-> entry])]

IsFunction(event) == event \notin {"null", "undefined"}

\* on(name, event, options)
on(s, name, event, signal) ==
    IF ~IsFunction(event) \/ ~HasEvent(name) THEN [s EXCEPT !.status = "threw"]
    ELSE LET entry == [kind |-> "fn", f |-> event, id |-> 0, signal |-> signal]
         IN  AddAbortListener([s EXCEPT !.events = SetAdd(@, entry)], signal, entry)

\* once(name, event, options)
once(s, name, event, signal) ==
    IF ~IsFunction(event) \/ ~HasEvent(name) THEN [s EXCEPT !.status = "threw"]
    ELSE LET entry == [kind |-> "wrapper", f |-> event, id |-> s.wrappers + 1,
                       signal |-> signal]
         IN  AddAbortListener([s EXCEPT !.events = SetAdd(@, entry),
                                        !.wrappers = @ + 1], signal, entry)

\* off(name, event): the result of Set.prototype.delete.
off(s, name, event) ==
    IF ~IsFunction(event) \/ ~HasEvent(name)
    THEN Ret([s EXCEPT !.status = "threw"], NoValue)
    ELSE LET entry == [kind |-> "fn", f |-> event, id |-> 0]
         IN  Ret([s EXCEPT !.events = SetDelete(@, entry)], SetHas(s.events, entry))

\* The setter of onTest: a default handler, or undefined.
EventEmitter_set(s, handler) == [s EXCEPT !.defaultEvent = handler]

\* The call of one handler with the arguments of the raise.
Invoke(s, f, id, arg) ==
    [s EXCEPT !.calls = Append(@, [f |-> f, id |-> id, raise |-> s.raises, arg |-> arg])]

\* The call of one entry of events: a wrapper deletes itself, then calls f.
InvokeEntry(s, entry, arg) ==
    IF entry.kind = "wrapper"
    THEN Invoke([s EXCEPT !.events = SetDelete(@, entry)], entry.f, entry.id, arg)
    ELSE Invoke(s, entry.f, entry.id, arg)

\* raise() that calls the subscribers before the default handler.
raise_DefaultLast(s, arg) ==
    LET started == [s EXCEPT !.raises = @ + 1]
        Dispatch[k \in 0..Len(s.events)] ==
            IF k = 0 THEN started
            ELSE InvokeEntry(Dispatch[k - 1], s.events[k], arg)
        done == Dispatch[Len(s.events)]
    IN  IF s.defaultEvent # "undefined"
        THEN Invoke(done, s.defaultEvent, 0, arg)
        ELSE done

\* raise(...args): the default handler if there is one, then the entries of
\* events in the order of the Set.
raise(s, arg) ==
    LET started == [s EXCEPT !.raises = @ + 1]
        first == IF s.defaultEvent # "undefined"
                 THEN Invoke(started, s.defaultEvent, 0, arg)
                 ELSE started
        Dispatch[k \in 0..Len(s.events)] ==
            IF k = 0 THEN first
            ELSE InvokeEntry(Dispatch[k - 1], s.events[k], arg)
    IN  Dispatch[Len(s.events)]

\* The abort listeners of a signal, run in the order they were added.
RECURSIVE RunAbortListeners(_, _, _)
RunAbortListeners(s, signal, listeners) ==
    IF listeners = <<>> THEN s
    ELSE RunAbortListeners(
             IF Head(listeners).signal = signal
             THEN [s EXCEPT !.events = SetDelete(@, Head(listeners).entry)]
             ELSE s,
             signal, Tail(listeners))

\* controller.abort(): the abort event is dispatched once.
abort(s, signal) ==
    IF signal \in s.aborted THEN s
    ELSE [RunAbortListeners(s, signal, s.listeners) EXCEPT
              !.aborted = @ \cup {signal},
              !.listeners = SelectSeq(@, LAMBDA l : l.signal # signal)]

\* ------------------------------------------------------------------ Numbers

\* A Numbers collection (src/src/Numbers.spec.ts:185-286) over its Queue:
\* the array queue of the Queue and its capacity (limited is FALSE when the
\* capacity is undefined), the cached average as the fraction
\* average.num / average.den (cached is FALSE when _average is undefined),
\* sum, and min and max with their NaN as minNaN and maxNaN.
NewNumbers(limited, cap) ==
    [queue |-> <<>>, limited |-> limited, capacity |-> cap,
     cached |-> FALSE, average |-> [num |-> 0, den |-> 1],
     sum |-> 0, minNaN |-> TRUE, min |-> 0, maxNaN |-> TRUE, max |-> 0]

\* Math.max(...queue) and Math.min(...queue) of a queue that is not empty.
MathMax(q) == CHOOSE x \in {q[i] : i \in 1..Len(q)} : \A i \in 1..Len(q) : x >= q[i]

MathMin(q) == CHOOSE x \in {q[i] : i \in 1..Len(q)} : \A i \in 1..Len(q) : x <= q[i]

\* Queue.pop: the front of the array is removed and returned.
Queue_pop(s) ==
    IF s.queue = <<>> THEN Ret(s, Undefined)
    ELSE Ret([s EXCEPT !.queue = Tail(@)], Head(s.queue))

\* Queue.clear: the array is emptied.
Queue_clear(s) == [s EXCEPT !.queue = <<>>]

\* get minimum
minimum(s) == IF s.minNaN THEN 0 ELSE s.min

\* get maximum
maximum(s) == IF s.maxNaN THEN 0 ELSE s.max

\* get average: computed and cached when _average is not a number.
average(s) ==
    LET computed == IF Len(s.queue) # 0
                    THEN [num |-> s.sum, den |-> Len(s.queue)]
                    ELSE [num |-> 0, den |-> 1]
        t == IF s.cached THEN s ELSE [s EXCEPT !.cached = TRUE, !.average = computed]
    IN  Ret(t, t.average)

\* Numbers.pop
Numbers_pop(s) ==
    LET popped == Queue_pop(s)
        front == popped.ret
        t == popped.r
        hasFront == s.queue # <<>>
        isMax == hasFront /\ ~s.maxNaN /\ front = s.max
        isMin == hasFront /\ ~s.minNaN /\ front = s.min
    IN  Ret([t EXCEPT
                 !.maxNaN = IF isMax THEN Len(t.queue) = 0 ELSE @,
                 !.max = IF isMax /\ Len(t.queue) # 0 THEN MathMax(t.queue) ELSE @,
                 !.minNaN = IF isMin THEN Len(t.queue) = 0 ELSE @,
                 !.min = IF isMin /\ Len(t.queue) # 0 THEN MathMin(t.queue) ELSE @,
                 !.cached = FALSE,
                 !.sum = IF hasFront THEN @ - front ELSE @],
            front)

\* Queue.push: the value is appended; beyond the capacity the first value
\* pushed is popped, through the pop of the collection.
Queue_push(s, v) ==
    LET t == [s EXCEPT !.queue = Append(@, v)]
    IN  IF t.limited /\ Len(t.queue) > t.capacity THEN Numbers_pop(t).r ELSE t

\* Numbers.push
Numbers_push(s, v) ==
    Queue_push([s EXCEPT
                    !.max = IF s.maxNaN \/ v > s.max THEN v ELSE @,
                    !.maxNaN = FALSE,
                    !.min = IF s.minNaN \/ v < s.min THEN v ELSE @,
                    !.minNaN = FALSE,
                    !.cached = FALSE,
                    !.sum = @ + v], v)

\* Numbers.clear
Numbers_clear(s) ==
    Queue_clear([s EXCEPT !.sum = 0, !.minNaN = TRUE, !.maxNaN = TRUE])

\* ----------------------------------------------------------------- ByteRate

\* constructor(interval = 1000)
DefaultInterval == 1000

\* Byte counts are fractions num / den in lowest terms with den > 0: the
\* division of updateSamples is exact in the model.
RECURSIVE GCD(_, _)
GCD(a, b) == IF b = 0 THEN a ELSE GCD(b, a % b)

Frac(n, d) ==
    LET g == GCD(IF n < 0 THEN -n ELSE n, d)
    IN  IF n = 0 THEN [num |-> 0, den |-> 1] ELSE [num |-> n \div g, den |-> d \div g]

FracAdd(x, y) == Frac((x.num * y.den) + (y.num * x.den), x.den * y.den)

FracSub(x, y) == Frac((x.num * y.den) - (y.num * x.den), x.den * y.den)

\* x * n / d for integers n >= 0 and d > 0
FracScale(x, n, d) == Frac(x.num * n, x.den * d)

\* Math.round: the nearest integer, halves upwards.
MathRound(x) == ((2 * x.num) + x.den) \div (2 * x.den)

\* clear(), and through it the constructor, at the time now of Util.time().
ByteRate_clear(s, now) ==
    [s EXCEPT !.bytes = Frac(0, 1), !.time = now, !.samples = <<>>, !.clip = FALSE]

\* A ByteRate (src/src/ByteRate.ts) made at the time now: its fields, and
\* onBytes as the sequence of the calls it has received.
NewByteRate(delay, now) ==
    ByteRate_clear([interval |-> delay, bytes |-> Frac(0, 1), time |-> now,
                    samples |-> <<>>, clip |-> FALSE, onBytes |-> <<>>], now)

\* The loop of updateSamples; the samples removed are dropped as it goes.
RECURSIVE UpdateLoop(_, _)
UpdateLoop(s, timeOK) ==
    IF ~(s.time < timeOK /\ s.samples # <<>>) THEN s
    ELSE LET sample == Head(s.samples)
             t == [s EXCEPT !.bytes = FracSub(@, sample.bytes),
                            !.clip = IF sample.clip THEN FALSE ELSE @]
         IN  IF sample.time > timeOK
             THEN LET part == FracScale(sample.bytes, sample.time - timeOK,
                                        sample.time - s.time)
                  IN  [t EXCEPT !.samples[1] = [time |-> sample.time, bytes |-> part,
                                                clip |-> FALSE],
                                !.time = timeOK,
                                !.bytes = FracAdd(@, part)]
             ELSE UpdateLoop([t EXCEPT !.samples = Tail(@), !.time = sample.time],
                             timeOK)

\* updateSamples(now)
updateSamples(s, now) == UpdateLoop(s, now - s.interval)

\* exact() at the time now: the rate per second, as a fraction.
ByteRate_exact(s, now) ==
    LET t == updateSamples(s, now)
        duration == now - t.time
    IN  Ret(t, IF duration # 0 THEN FracScale(t.bytes, 1000, duration) ELSE Frac(0, 1))

\* value() at the time now
ByteRate_value(s, now) ==
    LET e == ByteRate_exact(s, now) IN Ret(e.r, MathRound(e.ret))

\* addBytes(bytes) at the time now
addBytes(s, bytes, now) ==
    LET t == updateSamples(s, now)
        n == Len(t.samples)
        lastTime == IF n > 0 THEN t.samples[n].time ELSE t.time
    IN  IF now > lastTime
        THEN [t EXCEPT !.samples = Append(@, [time |-> now, bytes |-> Frac(bytes, 1),
                                              clip |-> FALSE]),
                       !.bytes = FracAdd(@, Frac(bytes, 1)),
                       !.onBytes = Append(@, bytes)]
        ELSE IF n = 0 THEN t
        ELSE [t EXCEPT !.samples[n].bytes = FracAdd(@, Frac(bytes, 1)),
                       !.bytes = FracAdd(@, Frac(bytes, 1)),
                       !.onBytes = Append(@, bytes)]

\* The loop of clip(): the samples up to the first clipped one are removed.
RECURSIVE ClipLoop(_)
ClipLoop(s) ==
    IF s.samples = <<>> THEN s
    ELSE LET sample == Head(s.samples)
             t == [s EXCEPT !.bytes = FracSub(@, sample.bytes), !.time = sample.time,
                            !.samples = Tail(@)]
         IN  IF sample.clip THEN t ELSE ClipLoop(t)

\* clip()
ByteRate_clip(s) ==
    LET t == IF s.clip THEN ClipLoop([s EXCEPT !.clip = FALSE]) ELSE s
        n == Len(t.samples)
    IN  IF n > 0 THEN [t EXCEPT !.samples[n].clip = TRUE, !.clip = TRUE] ELSE t

\* set interval(value) at the time now
ByteRate_setInterval(s, delay, now) == updateSamples([s EXCEPT !.interval = delay], now)

\* ------------------------------------------------------------ sample inputs

\* 2^e, 2^e - 1 and 2^e + 1 as numbers, for 0 <= e.
NumPow2(e) == IF e < 16 THEN Num(0, Pow2(e)) ELSE Num(Pow2(e - 16), 0)
NumPow2Minus1(e) ==
    IF e < 16 THEN Num(0, Pow2(e) - 1) ELSE Num(Pow2(e - 16) - 1, 65535)
NumPow2Plus1(e) == IF e < 16 THEN Num(0, Pow2(e) + 1) ELSE Num(Pow2(e - 16), 1)

\* 300, 70000, 0xa5a5a5, 0x12345678, 0x89abcdef
PatternValues ==
    {N(300), N(70000), N(10855845), Num(4660, 22136), Num(35243, 52719)}

SampleValues ==
    UNION {{NumPow2Minus1(e), NumPow2(e), NumPow2Plus1(e)} : e \in 0..MaxExp}
        \cup PatternValues

SampleBytes == {0, 1, 127, 128, 255}

RECURSIVE SeqsOfLen(_, _)
SeqsOfLen(S, n) ==
    IF n = 0 THEN {<<>>}
    ELSE {<<x>> \o t : x \in S, t \in SeqsOfLen(S, n - 1)}

\* Buffers of BinaryReader.spec.ts and two five-byte varints.
NamedBuffers ==
    {<<1, 2, 3, 4>>, <<63, 128, 0, 0>>, <<63, 240, 0, 0, 0, 0, 0, 0>>,
     <<135, 255, 255, 255, 255>>, <<255, 255, 255, 255, 255, 255>>}

ReaderBuffers ==
    UNION {SeqsOfLen(SampleBytes, n) : n \in 0..MaxLen} \cup NamedBuffers

NoLast == [op |-> "new"]

\* -------------------------------------------------- BinaryWriter: any calls

\* The writer a call starts with: the previous call's outcome is forgotten.
Call(w) == [w EXCEPT !.status = "ok"]

WriterIdle ==
    /\ writer = NewWriter(0)
    /\ wlast = NoLast
    /\ wops = 0

ReaderIdle ==
    /\ reader = NewReader(<<>>)
    /\ rlast = NoLast
    /\ rops = 0

BitIdle ==
    /\ bitr = NewBitReader(<<>>)
    /\ blast = NoLast
    /\ bops = 0

SocketIdle ==
    /\ sock = NewSocket
    /\ slast = NoLast
    /\ sops = 0

EmitterIdle ==
    /\ em = NewEmitter
    /\ elast = NoLast
    /\ eops = 0

NumbersIdle ==
    /\ nums = NewNumbers(FALSE, 0)
    /\ nlast = NoLast
    /\ nops = 0

RateIdle ==
    /\ rate = NewByteRate(DefaultInterval, 0)
    /\ tlast = NoLast
    /\ tops = 0

\* The event emitter, the number collection and the rate meter are not in use.
OthersIdle == EmitterIdle /\ NumbersIdle /\ RateIdle

InitWriters ==
    {NewWriter(c) : c \in 0..MaxCap} \cup {NewWriter(DefaultCapacity)}
        \cup {AppendWriter(b) : b \in {<<>>, <<9>>, <<9, 8, 7>>}}
        \cup {ConstWriter(Zeros(c)) : c \in 0..MaxCap}

InitWriter ==
    /\ writer \in InitWriters
    /\ wlast = NoLast
    /\ wops = 0
    /\ ReaderIdle
    /\ BitIdle
    /\ SocketIdle
    /\ OthersIdle
    /\ log = <<>>
    /\ phase = "writer"

\* One call op(a) on the writer, which leaves it as w.
WriterCall(op, a, w) ==
    /\ phase = "writer"
    /\ writer.status # "hung"
    /\ wops < MaxWriterOps
    /\ writer' = w
    /\ wlast' = [op |-> op, a |-> a, before |-> writer]
    /\ wops' = wops + 1
    /\ UNCHANGED <<reader, rlast, rops, log, phase, bitVars, sockVars,
                 emitVars, numVars, rateVars>>

Writer_next(count) == WriterCall("next", count, next(Call(writer), count))

Writer_clear(size) == WriterCall("clear", size, clear(Call(writer), size))

Writer_reserve(size) == WriterCall("reserve", size, reserve(Call(writer), size))

Writer_write(data) == WriterCall("write", data, write(Call(writer), data))

Writer_write8(v) == WriterCall("write8", v, write8(Call(writer), v))

Writer_write16(v) == WriterCall("write16", v, write16(Call(writer), v))

Writer_write24(v) == WriterCall("write24", v, write24(Call(writer), v))

Writer_write32(v) == WriterCall("write32", v, write32(Call(writer), v))

Writer_write7Bit(v, bytes) ==
    WriterCall("write7Bit", [v |-> v, bytes |-> bytes],
               write7Bit(Call(writer), v, bytes))

Writer_writeHex(s) == WriterCall("writeHex", s, writeHex(Call(writer), s))

Writer_writeString(s) ==
    WriterCall("writeString", s, writeString(Call(writer), s))

WriteData ==
    {[str |-> FALSE, items |-> <<>>], [str |-> FALSE, items |-> <<7>>],
     [str |-> FALSE, items |-> <<1, 2, 3>>], [str |-> TRUE, items |-> <<72, 256>>]}

Varints ==
    {[v |-> N(0), bytes |-> 5], [v |-> N(300), bytes |-> 5],
     [v |-> U32Max, bytes |-> 5], [v |-> N(300), bytes |-> 2],
     [v |-> N(0), bytes |-> 1], [v |-> N(1), bytes |-> 6],
     [v |-> N(1), bytes |-> 0]}

HexStrings ==
    {<<>>, <<"0", "a", "1", "b">>, <<"a", "b", "c">>, <<"g", "1">>}

NextWriter ==
    \/ \E count \in {1, 2, 5} : Writer_next(count)
    \/ \E size \in {0, 1, 5} : Writer_clear(size)
    \/ \E size \in {0, 3, 9} : Writer_reserve(size)
    \/ \E data \in WriteData : Writer_write(data)
    \/ \E v \in {N(1), N(300)} : Writer_write8(v)
    \/ \E v \in {N(4660), N(70000)} : Writer_write16(v)
    \/ \E v \in {N(1193046)} : Writer_write24(v)
    \/ \E v \in {Num(35243, 52719), Num(65536, 1)} : Writer_write32(v)
    \/ \E x \in Varints : Writer_write7Bit(x.v, x.bytes)
    \/ \E s \in HexStrings : Writer_writeHex(s)
    \/ \E s \in {<<>>, <<72, 105>>} : Writer_writeString(s)

SpecWriter == InitWriter /\ [][NextWriter]_vars

\* -------------------------------------------------- BinaryReader: any calls

InitReader ==
    /\ reader \in {NewReader(d) : d \in ReaderBuffers}
    /\ rlast = NoLast
    /\ rops = 0
    /\ WriterIdle
    /\ BitIdle
    /\ SocketIdle
    /\ OthersIdle
    /\ log = <<>>
    /\ phase = "reader"

\* One call op(a) on the reader, which yields res (a reader and a value).
ReaderCall(op, a, res) ==
    /\ phase = "reader"
    /\ reader.status # "hung"
    /\ rops < MaxReaderOps
    /\ reader' = res.r
    /\ rlast' = [op |-> op, a |-> a, ret |-> res.ret, before |-> reader]
    /\ rops' = rops + 1
    /\ UNCHANGED <<writer, wlast, wops, log, phase, bitVars, sockVars,
                 emitVars, numVars, rateVars>>

RCall(r) == [r EXCEPT !.status = "ok"]

Reader_reset(pos) == ReaderCall("reset", pos, Ret(reset(RCall(reader), pos), NoValue))

Reader_shrink(n) == ReaderCall("shrink", n, shrink(RCall(reader), n))

Reader_next(n) == ReaderCall("next", n, BinaryReader_next(RCall(reader), n))

Reader_read8 == ReaderCall("read8", 1, read8(RCall(reader)))

Reader_read16 == ReaderCall("read16", 2, read16(RCall(reader)))

Reader_read24 == ReaderCall("read24", 3, read24(RCall(reader)))

Reader_read32 == ReaderCall("read32", 4, read32(RCall(reader)))

Reader_readFloat == ReaderCall("readFloat", 4, readFloat(RCall(reader)))

Reader_readDouble == ReaderCall("readDouble", 8, readDouble(RCall(reader)))

Reader_read7Bit(bytes) ==
    ReaderCall("read7Bit", bytes, read7Bit(RCall(reader), bytes))

Reader_readString == ReaderCall("readString", 0, readString(RCall(reader)))

Reader_readHex(n) == ReaderCall("readHex", n, readHex(RCall(reader), n))

Reader_read(n) == ReaderCall("read", n, read(RCall(reader), n))

\* read() with its default argument, available()
Reader_readAll ==
    ReaderCall("read", available(reader), read(RCall(reader), available(reader)))

Reader_value(pos) ==
    ReaderCall("value", pos, Ret(RCall(reader), value(reader, pos)))

IntArgs == {-1, 0, 1, 2, 9}

NextReader ==
    \/ \E pos \in IntArgs : Reader_reset(pos)
    \/ \E n \in IntArgs : Reader_shrink(n)
    \/ \E n \in IntArgs : Reader_next(n)
    \/ Reader_read8
    \/ Reader_read16
    \/ Reader_read24
    \/ Reader_read32
    \/ Reader_readFloat
    \/ Reader_readDouble
    \/ \E bytes \in {0, 1, 2, 5, 6} : Reader_read7Bit(bytes)
    \/ Reader_readString
    \/ \E n \in IntArgs : Reader_readHex(n)
    \/ \E n \in IntArgs : Reader_read(n)
    \/ Reader_readAll
    \/ \E pos \in IntArgs : Reader_value(pos)

SpecReader == InitReader /\ [][NextReader]_vars

\* ------------------------------------------------------ BitReader: any calls

\* Buffers of BitReader.spec.ts; Exp-Golomb codes with a prefix of 15 and of 16
\* zero bits; codes that the end of the buffer cuts; runs of zero bits.
BitBuffers ==
    {<<>>, <<1, 2, 3, 4>>, <<170>>, <<240, 15>>,
     <<255, 255, 255, 255, 128, 0, 0, 0>>, <<166, 66, 128>>,
     <<0, 1, 255, 254>>, <<0, 0, 128, 0, 0>>, <<0, 0, 255, 255, 128>>,
     <<1>>, <<0>>, <<255>>, <<32>>, <<0, 0, 0, 0, 0>>, <<0, 0, 0, 0, 0, 0>>,
     <<0, 0, 64, 0, 0>>}

InitBitReader ==
    /\ bitr \in {NewBitReader(d) : d \in BitBuffers}
    /\ blast = NoLast
    /\ bops = 0
    /\ WriterIdle
    /\ ReaderIdle
    /\ SocketIdle
    /\ OthersIdle
    /\ log = <<>>
    /\ phase = "bits"

\* One call op(a) on the bit reader, which yields res (a reader and a value).
BitCall(op, a, res) ==
    /\ phase = "bits"
    /\ bops < MaxBitOps
    /\ bitr' = res.r
    /\ blast' = [op |-> op, a |-> a, ret |-> res.ret, before |-> bitr]
    /\ bops' = bops + 1
    /\ UNCHANGED <<writer, wlast, wops, reader, rlast, rops, log, phase, sockVars,
                 emitVars, numVars, rateVars>>

Bits_next(n) == BitCall("next", n, BitReader_next(bitr, n))

Bits_read(n) == BitCall("read", n, BitReader_read(bitr, n))

Bits_read8 == BitCall("read8", 8, BitReader_read8(bitr))

Bits_read16 == BitCall("read16", 16, BitReader_read16(bitr))

Bits_read24 == BitCall("read24", 24, BitReader_read24(bitr))

Bits_read32 == BitCall("read32", 32, BitReader_read32(bitr))

Bits_readExpGolombMethod ==
    BitCall("readExpGolomb", 0, BitReader_readExpGolomb(bitr))

Bits_readExpGolombFunction ==
    BitCall("readExpGolomb", 1, readExpGolomb(bitr))

NextBitReader ==
    \/ \E n \in {-1, 1, 3, 8, 32} : Bits_next(n)
    \/ \E n \in {0, 1, 2, 4, 12, 31, 32} : Bits_read(n)
    \/ Bits_read8
    \/ Bits_read16
    \/ Bits_read24
    \/ Bits_read32
    \/ Bits_readExpGolombMethod
    \/ Bits_readExpGolombFunction

SpecBitReader == InitBitReader /\ [][NextBitReader]_vars

\* ----------------------------------------- round trip: write, then read back

\* The value written after the first one: 0xa5.
TailValues == {N(165)}

InitRoundTrip ==
    /\ writer \in {NewWriter(0), NewWriter(DefaultCapacity)}
    /\ wlast = NoLast
    /\ wops = 0
    /\ ReaderIdle
    /\ BitIdle
    /\ SocketIdle
    /\ OthersIdle
    /\ log = <<>>
    /\ phase = "write"

\* The values a write may take: any sample for the first value written, the
\* tail value for the ones after it.
Writable == IF log = <<>> THEN SampleValues ELSE TailValues
WritableBytes == IF log = <<>> THEN 1..5 ELSE {5}

\* One write op(v [, bytes]) of the writing phase, which leaves the writer as
\* w; log records the call and the bytes [from, to) it appended.
RoundTripWrite(op, v, bytes, w) ==
    /\ phase = "write"
    /\ writer.status = "ok"
    /\ Len(log) < 1 + MaxTail
    /\ writer' = w
    /\ wlast' = [op |-> op, a |-> [v |-> v, bytes |-> bytes], before |-> writer]
    /\ wops' = wops + 1
    /\ log' = IF w.status = "ok"
              THEN Append(log, [op |-> op, v |-> v, bytes |-> bytes,
                                from |-> writer.size, to |-> w.size])
              ELSE log
    /\ UNCHANGED <<reader, rlast, rops, phase, bitVars, sockVars,
                 emitVars, numVars, rateVars>>

RoundTrip_write8(v) == RoundTripWrite("write8", v, 1, write8(writer, v))

RoundTrip_write16(v) == RoundTripWrite("write16", v, 2, write16(writer, v))

RoundTrip_write24(v) == RoundTripWrite("write24", v, 3, write24(writer, v))

RoundTrip_write32(v) == RoundTripWrite("write32", v, 4, write32(writer, v))

RoundTrip_write7Bit(v, bytes) ==
    RoundTripWrite("write7Bit", v, bytes, write7Bit(writer, v, bytes))

\* new BinaryReader(writer.data())
RoundTrip_handoff ==
    /\ phase = "write"
    /\ writer.status = "ok"
    /\ log # <<>>
    /\ reader' = NewReader(BinaryWriter_data(writer))
    /\ rlast' = NoLast
    /\ rops' = 0
    /\ phase' = "read"
    /\ UNCHANGED <<writer, wlast, wops, log, bitVars, sockVars,
                 emitVars, numVars, rateVars>>

\* The read matching the next logged write.
RoundTripRead(wop, rop, res) ==
    /\ phase = "read"
    /\ reader.status = "ok"
    /\ rops < Len(log)
    /\ log[rops + 1].op = wop
    /\ reader' = res.r
    /\ rlast' = [op |-> rop, a |-> log[rops + 1].bytes, ret |-> res.ret,
                 before |-> reader]
    /\ rops' = rops + 1
    /\ UNCHANGED <<writer, wlast, wops, log, phase, bitVars, sockVars,
                 emitVars, numVars, rateVars>>

RoundTrip_read8 == RoundTripRead("write8", "read8", read8(reader))

RoundTrip_read16 == RoundTripRead("write16", "read16", read16(reader))

RoundTrip_read24 == RoundTripRead("write24", "read24", read24(reader))

RoundTrip_read32 == RoundTripRead("write32", "read32", read32(reader))

RoundTrip_read7Bit ==
    /\ phase = "read"
    /\ rops < Len(log)
    /\ RoundTripRead("write7Bit", "read7Bit",
                     read7Bit(reader, log[rops + 1].bytes))

NextRoundTrip ==
    \/ \E v \in Writable : RoundTrip_write8(v)
    \/ \E v \in Writable : RoundTrip_write16(v)
    \/ \E v \in Writable : RoundTrip_write24(v)
    \/ \E v \in Writable : RoundTrip_write32(v)
    \/ \E v \in Writable, bytes \in WritableBytes : RoundTrip_write7Bit(v, bytes)
    \/ RoundTrip_handoff
    \/ RoundTrip_read8
    \/ RoundTrip_read16
    \/ RoundTrip_read24
    \/ RoundTrip_read32
    \/ RoundTrip_read7Bit

SpecRoundTrip == InitRoundTrip /\ [][NextRoundTrip]_vars

\* ------------------------------- string round trip: writeString, readString

\* Char codes: NUL, 'A', the last Latin-1 character, the first one after it.
SampleChars == {0, 65, 255, 256}

Strings == UNION {SeqsOfLen(SampleChars, n) : n \in 0..MaxStrLen}

InitStrings ==
    /\ writer \in {NewWriter(0), NewWriter(DefaultCapacity)}
    /\ wlast = NoLast
    /\ wops = 0
    /\ ReaderIdle
    /\ BitIdle
    /\ SocketIdle
    /\ OthersIdle
    /\ log = <<>>
    /\ phase = "swrite"

\* One write of the writing phase; log records the call and the bytes
\* [from, to) it appended.
StringsWrite(op, v, w) ==
    /\ phase = "swrite"
    /\ writer.status = "ok"
    /\ writer' = w
    /\ wlast' = [op |-> op, a |-> v, before |-> writer]
    /\ wops' = wops + 1
    /\ log' = IF w.status = "ok"
              THEN Append(log, [op |-> op, v |-> v,
                                from |-> writer.size, to |-> w.size])
              ELSE log
    /\ UNCHANGED <<reader, rlast, rops, phase, bitVars, sockVars,
                 emitVars, numVars, rateVars>>

Strings_writeString(s) ==
    /\ log = <<>>
    /\ StringsWrite("writeString", s, writeString(writer, s))

\* The value written after the string.
Strings_write8(v) ==
    /\ Len(log) = 1
    /\ StringsWrite("write8", v, write8(writer, v))

\* new BinaryReader(writer.data())
Strings_handoff ==
    /\ phase = "swrite"
    /\ writer.status = "ok"
    /\ log # <<>>
    /\ reader' = NewReader(BinaryWriter_data(writer))
    /\ rlast' = NoLast
    /\ rops' = 0
    /\ phase' = "sread"
    /\ UNCHANGED <<writer, wlast, wops, log, bitVars, sockVars,
                 emitVars, numVars, rateVars>>

\* The read matching the next logged write.
StringsRead(wop, rop, res) ==
    /\ phase = "sread"
    /\ reader.status = "ok"
    /\ rops < Len(log)
    /\ log[rops + 1].op = wop
    /\ reader' = res.r
    /\ rlast' = [op |-> rop, a |-> 0, ret |-> res.ret, before |-> reader]
    /\ rops' = rops + 1
    /\ UNCHANGED <<writer, wlast, wops, log, phase, bitVars, sockVars,
                 emitVars, numVars, rateVars>>

Strings_readString == StringsRead("writeString", "readString", readString(reader))

Strings_read8 == StringsRead("write8", "read8", read8(reader))

NextStrings ==
    \/ \E s \in Strings : Strings_writeString(s)
    \/ \E v \in {N(0), N(165)} : Strings_write8(v)
    \/ Strings_handoff
    \/ Strings_readString
    \/ Strings_read8

SpecStrings == InitStrings /\ [][NextStrings]_vars

\* ---------------------------------- WebSocketReliable: calls and events

InitSocket ==
    /\ sock \in {NewSocket, NewSocketOpen}
    /\ slast = NoLast
    /\ sops = 0
    /\ WriterIdle
    /\ ReaderIdle
    /\ BitIdle
    /\ OthersIdle
    /\ log = <<>>
    /\ phase = "socket"

\* One call, or one event of a WebSocket, which leaves the instance as s.
SocketCall(op, a, s) ==
    /\ phase = "socket"
    /\ sops < MaxSocketOps
    /\ sock' = s
    /\ slast' = [op |-> op, a |-> a, before |-> sock]
    /\ sops' = sops + 1
    /\ UNCHANGED <<writer, wlast, wops, reader, rlast, rops, log, phase, bitVars,
                 emitVars, numVars, rateVars>>

\* The instance a call starts with: the previous call's outcome is forgotten.
SCall == [sock EXCEPT !.status = "ok"]

Socket_open == SocketCall("open", 0, open(SCall))

Socket_send(message, queueing) ==
    SocketCall("send", [message |-> message, queueing |-> queueing],
               send(SCall, message, queueing))

Socket_flush == SocketCall("flush", 0, flush(SCall))

Socket_close == SocketCall("close", 0, close(SCall, "none"))

\* WebSocket i, connecting, becomes open and its open event is delivered.
Socket_onopen(i) ==
    /\ i \in 1..Len(sock.socks)
    /\ sock.socks[i].state = "connecting"
    /\ sock.socks[i].handlers
    /\ SocketCall("onopen", i, onopen([SCall EXCEPT !.socks[i].state = "open"]))

\* WebSocket i is closed by the peer or fails, and its close event is delivered.
Socket_onclose(i, code) ==
    /\ i \in 1..Len(sock.socks)
    /\ sock.socks[i].state \in {"connecting", "open"}
    /\ sock.socks[i].handlers
    /\ SocketCall("onclose", i,
                  onclose([SCall EXCEPT !.socks[i].state = "closed"], code))

\* WebSocket i, open, delivers a message.
Socket_onmessage(i) ==
    /\ i \in 1..Len(sock.socks)
    /\ sock.socks[i].state = "open"
    /\ sock.socks[i].handlers
    /\ SocketCall("onmessage", i, onmessage(SCall))

\* The messages "a" and "bc".
Messages == {<<97>>, <<98, 99>>}

NextSocket ==
    \/ Socket_open
    \/ \E m \in Messages, q \in BOOLEAN : Socket_send(m, q)
    \/ Socket_flush
    \/ Socket_close
    \/ \E i \in 1..(MaxSocketOps + 1) : Socket_onopen(i)
    \/ \E i \in 1..(MaxSocketOps + 1), code \in {1000, 1006} : Socket_onclose(i, code)
    \/ \E i \in 1..(MaxSocketOps + 1) : Socket_onmessage(i)

SpecSocket == InitSocket /\ [][NextSocket]_vars

\* ------------------------------------------------- EventEmitter: any calls

InitEmitter ==
    /\ em = NewEmitter
    /\ elast = NoLast
    /\ eops = 0
    /\ WriterIdle
    /\ ReaderIdle
    /\ BitIdle
    /\ SocketIdle
    /\ NumbersIdle
    /\ RateIdle
    /\ log = <<>>
    /\ phase = "emitter"

\* One call op(a) on the emitter, which yields res (an emitter and a value).
EmitterCall(op, a, res) ==
    /\ phase = "emitter"
    /\ eops < MaxEmitterOps
    /\ em' = res.r
    /\ elast' = [op |-> op, a |-> a, ret |-> res.ret, before |-> em]
    /\ eops' = eops + 1
    /\ UNCHANGED <<writer, wlast, wops, reader, rlast, rops, log, phase, bitVars,
                 sockVars, numVars, rateVars>>

\* The emitter a call starts with: the previous call's outcome is forgotten.
ECall == [em EXCEPT !.status = "ok"]

Emitter_on(x) ==
    EmitterCall("on", x, Ret(on(ECall, x.name, x.event, x.signal), NoValue))

Emitter_once(x) ==
    EmitterCall("once", x, Ret(once(ECall, x.name, x.event, x.signal), NoValue))

Emitter_off(x) == EmitterCall("off", x, off(ECall, x.name, x.event))

Emitter_set(handler) ==
    EmitterCall("set", handler, Ret(EventEmitter_set(ECall, handler), NoValue))

Emitter_raise(arg) == EmitterCall("raise", arg, Ret(raise(ECall, arg), NoValue))

Emitter_abort(signal) ==
    EmitterCall("abort", signal, Ret(abort(ECall, signal), NoValue))

\* A subscription call: the name of the event, the function, the signal.
Sub(name, event, signal) == [name |-> name, event |-> event, signal |-> signal]

Subscriptions ==
    {Sub("test", "f", NoSignal), Sub("Test", "g", NoSignal),
     Sub("test", "f", "c1"), Sub("test", "g", "c1"),
     Sub("nonexistent", "f", NoSignal), Sub("test", "null", NoSignal)}

Unsubscriptions ==
    {Sub("test", "f", NoSignal), Sub("test", "g", NoSignal),
     Sub("nonexistent", "f", NoSignal), Sub("test", "null", NoSignal)}

NextEmitter ==
    \/ \E x \in Subscriptions : Emitter_on(x)
    \/ \E x \in Subscriptions : Emitter_once(x)
    \/ \E x \in Unsubscriptions : Emitter_off(x)
    \/ \E handler \in {"h", "undefined"} : Emitter_set(handler)
    \/ \E arg \in {1, 2} : Emitter_raise(arg)
    \/ Emitter_abort("c1")

SpecEmitter == InitEmitter /\ [][NextEmitter]_vars

\* ------------------------------------------------------ Numbers: any calls

InitNumbers ==
    /\ \E limited \in BOOLEAN : nums = NewNumbers(limited, IF limited THEN MaxCapacity ELSE 0)
    /\ nlast = NoLast
    /\ nops = 0
    /\ WriterIdle
    /\ ReaderIdle
    /\ BitIdle
    /\ SocketIdle
    /\ EmitterIdle
    /\ RateIdle
    /\ log = <<>>
    /\ phase = "numbers"

\* One call op(a) on the collection, which yields res (a collection and a value).
NumbersCall(op, a, res) ==
    /\ phase = "numbers"
    /\ nops < MaxNumbersOps
    /\ nums' = res.r
    /\ nlast' = [op |-> op, a |-> a, ret |-> res.ret, before |-> nums]
    /\ nops' = nops + 1
    /\ UNCHANGED <<writer, wlast, wops, reader, rlast, rops, log, phase, bitVars,
                 sockVars, emitVars, rateVars>>

Numbers_push_call(v) == NumbersCall("push", v, Ret(Numbers_push(nums, v), NoValue))

Numbers_pop_call == NumbersCall("pop", 0, Numbers_pop(nums))

Numbers_clear_call == NumbersCall("clear", 0, Ret(Numbers_clear(nums), NoValue))

Numbers_average_call == NumbersCall("average", 0, average(nums))

Numbers_minimum_call == NumbersCall("minimum", 0, Ret(nums, minimum(nums)))

Numbers_maximum_call == NumbersCall("maximum", 0, Ret(nums, maximum(nums)))

SampleNumbers == {-2, 0, 1, 3}

NextNumbers ==
    \/ \E v \in SampleNumbers : Numbers_push_call(v)
    \/ Numbers_pop_call
    \/ Numbers_clear_call
    \/ Numbers_average_call
    \/ Numbers_minimum_call
    \/ Numbers_maximum_call

SpecNumbers == InitNumbers /\ [][NextNumbers]_vars

\* ----------------------------------------------------- ByteRate: any calls

\* The clock Util.time() is log: <<>> at 0, then one entry, the time in ms.
Now == IF log = <<>> THEN 0 ELSE log[1]

InitByteRate ==
    /\ rate = NewByteRate(DefaultInterval, 0)
    /\ tlast = NoLast
    /\ tops = 0
    /\ WriterIdle
    /\ ReaderIdle
    /\ BitIdle
    /\ SocketIdle
    /\ EmitterIdle
    /\ NumbersIdle
    /\ log = <<>>
    /\ phase = "rate"

\* One call op(a) on the meter at the time Now, which yields res.
RateCall(op, a, res) ==
    /\ phase = "rate"
    /\ tops < MaxRateOps
    /\ rate' = res.r
    /\ tlast' = [op |-> op, a |-> a, ret |-> res.ret, before |-> rate, now |-> Now]
    /\ tops' = tops + 1
    /\ UNCHANGED <<writer, wlast, wops, reader, rlast, rops, log, phase, bitVars,
                 sockVars, emitVars, numVars>>

\* Time passes: Util.time() grows by ms.
Rate_tick(ms) ==
    /\ phase = "rate"
    /\ tops < MaxRateOps
    /\ log' = <<Now + ms>>
    /\ tlast' = [op |-> "tick", a |-> ms, ret |-> NoValue, before |-> rate, now |-> Now]
    /\ tops' = tops + 1
    /\ UNCHANGED <<writer, wlast, wops, reader, rlast, rops, rate, phase, bitVars,
                 sockVars, emitVars, numVars>>

Rate_addBytes(bytes) == RateCall("addBytes", bytes, Ret(addBytes(rate, bytes, Now), NoValue))

Rate_clear == RateCall("clear", 0, Ret(ByteRate_clear(rate, Now), NoValue))

Rate_clip == RateCall("clip", 0, Ret(ByteRate_clip(rate), NoValue))

Rate_value == RateCall("value", 0, ByteRate_value(rate, Now))

Rate_exact == RateCall("exact", 0, ByteRate_exact(rate, Now))

Rate_setInterval(delay) ==
    RateCall("interval", delay, Ret(ByteRate_setInterval(rate, delay, Now), NoValue))

NextByteRate ==
    \/ \E ms \in {300, 500, 1000} : Rate_tick(ms)
    \/ \E bytes \in {500, 1000} : Rate_addBytes(bytes)
    \/ Rate_clear
    \/ Rate_clip
    \/ Rate_value
    \/ Rate_exact
    \/ \E delay \in {1000, 2000} : Rate_setInterval(delay)

SpecByteRate == InitByteRate /\ [][NextByteRate]_vars

\* ------------------------------------------------ properties: vocabulary

\* Bit i of a number, and the width bits from bit off on, read off the limbs.
Bit(v, i) ==
    IF i < 16 THEN (v.lo \div Pow2(i)) % 2
    ELSE IF i < 32 THEN ((v.hi % 65536) \div Pow2(i - 16)) % 2
    ELSE 0

RECURSIVE Field(_, _, _)
Field(v, from, width) ==
    IF width = 0 THEN 0
    ELSE Bit(v, from) + (2 * Field(v, from + 1, width - 1))

IsFixed(item) == item.op \in {"write8", "write16", "write24", "write32"}

IsVarint(item) == item.op = "write7Bit"

\* The largest value of a fixed-width field of n bytes, and of a varint of at
\* most k bytes (7 bits a byte, 8 in the last of k; 32 bits at most).
MaxOfWidth(n) == NumPow2Minus1(8 * n)

MaxVarint(k) == IF k = 5 THEN U32Max ELSE NumPow2Minus1((7 * k) + 1)

InRange(item) ==
    IF IsVarint(item) THEN ~NumGT(item.v, MaxVarint(item.bytes))
    ELSE ~NumGT(item.v, MaxOfWidth(item.bytes))

\* The n low bytes of v, most significant first.
BigEndian(v, n) == [i \in 1..n |-> Field(v, 8 * (n - i), 8)]

\* The bytes a logged write appended.
Written(item) == SubSeq(writer.data, item.from + 1, item.to)

\* The logged write whose value the last read returned.
ReadItem == log[rops]

HasRead == phase = "read" /\ rops > 0

\* The number of 7-bit groups of v, at least one.
Groups(v) == CHOOSE g \in 1..5 : /\ ~NumGT(v, NumPow2Minus1(7 * g))
                                 /\ (g > 1 => NumGT(v, NumPow2Minus1(7 * (g - 1))))

\* ------------------------------------------------------------------ C1

IsDefaultVarint(item) ==
    IsVarint(item) /\ item.bytes = 5 /\ ~NumGT(item.v, U32Max)

\* C1: for every v in 0..2^32-1, read7Bit() over the bytes of write7Bit(v)
\* returns v and consumes exactly the bytes written, and the value written
\* after it is read back correctly.
C1_VarintRoundTrip ==
    HasRead =>
        /\ IsDefaultVarint(ReadItem) =>
              /\ reader.status = "ok"
              /\ rlast.ret = ReadItem.v
              /\ rlast.before.position = ReadItem.from
              /\ reader.position = ReadItem.to
        /\ (rops > 1 /\ IsDefaultVarint(log[rops - 1]) /\ InRange(ReadItem)) =>
              /\ reader.status = "ok"
              /\ rlast.ret = ReadItem.v

C1_Witness ==
    /\ HasRead
    /\ rops = 2
    /\ IsDefaultVarint(log[1])
    /\ log[1].v = U32Max
    /\ log[1].to - log[1].from = 5
    /\ rlast.ret = log[2].v

\* ------------------------------------------------------------------ C2

\* C2: for W in {8, 16, 24, 32} and 0 <= x <= 2^W - 1, writeW(x) appends W/8
\* bytes, big-endian, and readW() over data() returns x and advances by W/8
\* bytes, in any sequence of mixed-width writes read back in order.
C2_FixedWidthRoundTrip ==
    /\ \A i \in 1..Len(log) :
          (IsFixed(log[i]) /\ InRange(log[i])) =>
              /\ log[i].to - log[i].from = log[i].bytes
              /\ Written(log[i]) = BigEndian(log[i].v, log[i].bytes)
    /\ (HasRead /\ IsFixed(ReadItem) /\ InRange(ReadItem)) =>
          /\ reader.status = "ok"
          /\ rlast.ret = ReadItem.v
          /\ rlast.before.position = ReadItem.from
          /\ reader.position = rlast.before.position + ReadItem.bytes

C2_Witness ==
    /\ HasRead
    /\ rops = 2
    /\ log[1].op = "write24"
    /\ log[1].v = N(10855845)
    /\ log[2].op = "write32"
    /\ rlast.op = "read32"
    /\ rlast.ret = N(165)

\* ------------------------------------------------------------------ C3

\* C3: size() <= capacity after every operation of a writer built in any of
\* the three modes, also after a call that raised an error.
C3_SizeWithinCapacity == BinaryWriter_size(writer) <= capacity(writer)

\* ------------------------------------------------------------------ C4

\* The number of bytes of the varint of v in at most k bytes.
VarintLen(v, k) ==
    IF NumGT(v, NumPow2Minus1(7 * (k - 1))) THEN k ELSE Groups(v)

\* The size the last writer call needs the buffer to have.
Required ==
    LET b == wlast.before
        a == wlast.a
    IN  CASE wlast.op \in {"clear", "reserve"} -> a
          [] wlast.op = "next" -> b.size + a
          [] wlast.op = "write" -> b.size + Len(a.items)
          [] wlast.op = "write8" -> b.size + 1
          [] wlast.op = "write16" -> b.size + 2
          [] wlast.op = "write24" -> b.size + 3
          [] wlast.op = "write32" -> b.size + 4
          [] wlast.op = "write7Bit" -> b.size + VarintLen(a.v, a.bytes)
          [] wlast.op = "writeHex" -> b.size + ((Len(a) + 1) \div 2)
          [] wlast.op = "writeString" -> b.size + VarintLen(N(Len(a)), 5) + Len(a)

\* A call of write7Bit that reaches its output loops.
ValidCall ==
    /\ wlast.op # "new"
    /\ wlast.op = "write7Bit" => /\ wlast.a.bytes \in 1..5
                                 /\ writer.status # "hung"

\* C4: on a const-capacity writer every operation that would need more than
\* capacity bytes raises an error, never reallocates, and leaves size() as it
\* was before the call.
C4_FixedCapacityEnforced ==
    (/\ ValidCall
     /\ wlast.op # "reserve"
     /\ wlast.before.isConst
     /\ Required > capacity(wlast.before)) =>
        /\ writer.status = "threw"
        /\ writer.allocs = wlast.before.allocs
        /\ writer.data = wlast.before.data
        /\ BinaryWriter_size(writer) = BinaryWriter_size(wlast.before)

\* ------------------------------------------------------------------ C5

SmallestPow2AtLeast(n) ==
    CHOOSE p \in {Pow2(e) : e \in 0..20} :
        /\ p >= n
        /\ \A q \in {Pow2(e) : e \in 0..20} : q >= n => p <= q

IsGrowingCall ==
    /\ ValidCall
    /\ wlast.op \notin {"clear", "reserve"}
    /\ ~wlast.before.isConst

\* C5: a write on a growable writer that needs required > capacity bytes
\* makes capacity the smallest power of two >= required; otherwise capacity
\* is unchanged; size() grows by the bytes written and the bytes below the
\* previous size() keep their values.
C5_CapacityGrowth ==
    IsGrowingCall =>
        /\ writer.status = "ok"
        /\ capacity(writer) =
              IF Required > capacity(wlast.before)
              THEN SmallestPow2AtLeast(Required)
              ELSE capacity(wlast.before)
        /\ BinaryWriter_size(writer) = Required
        /\ \A i \in 1..wlast.before.size : writer.data[i] = wlast.before.data[i]

C5_Witness ==
    /\ IsGrowingCall
    /\ wlast.op = "write32"
    /\ wlast.before.size = 3
    /\ capacity(wlast.before) = 3
    /\ capacity(writer) = 8
    /\ writer.allocs = wlast.before.allocs + 1

\* ------------------------------------------------------------------ C6

\* C6: after any sequence of reader operations with any integer arguments,
\* 0 <= position() <= size() and size() is at most the buffer's length.
C6_CursorWithinBounds ==
    /\ 0 <= position(reader)
    /\ position(reader) <= BinaryReader_size(reader)
    /\ BinaryReader_size(reader) <= Len(reader.data)

\* ------------------------------------------------------------------ C7

FixedReads == {"read8", "read16", "read24", "read32", "readFloat", "readDouble"}

\* C7: a fixed-width read called with available() smaller than its width
\* returns 0 and does not throw; read(n), n >= 0, called with available() < n
\* returns n zero bytes and does not throw.
C7_ShortfallDefaults ==
    /\ (rlast.op \in FixedReads /\ available(rlast.before) < rlast.a) =>
          /\ reader.status = "ok"
          /\ rlast.ret = N(0)
    /\ (rlast.op = "read" /\ rlast.a >= 0 /\ available(rlast.before) < rlast.a) =>
          /\ reader.status = "ok"
          /\ Len(rlast.ret) = rlast.a
          /\ \A i \in 1..rlast.a : rlast.ret[i] = 0

C7_Witness ==
    /\ rlast.op = "read32"
    /\ available(rlast.before) \in 1..3
    /\ reader.status = "ok"
    /\ rlast.ret = N(0)

\* ------------------------------------------------------------------ C8

C9_VarintClamp ==
    /\ \A i \in 1..Len(log) :
          (IsVarint(log[i]) /\ ~InRange(log[i])) =>
              log[i].to - log[i].from = log[i].bytes
    /\ (HasRead /\ IsVarint(ReadItem) /\ ~InRange(ReadItem)) =>
          /\ reader.status = "ok"
          /\ rlast.ret = MaxVarint(ReadItem.bytes)
          /\ reader.position = ReadItem.to

C9_Witness ==
    /\ HasRead
    /\ IsVarint(ReadItem)
    /\ ReadItem.bytes = 3
    /\ ReadItem.v = Num(4660, 22136)
    /\ rlast.ret = Num(63, 65535)

\* ------------------------------------------------------------------ C10

\* C10: for W in {8, 16, 24, 32} and v > 2^W - 1, writeW(v) appends W/8 bytes
\* holding the all-ones value 2^W - 1, not v mod 2^W.
C10_Saturation ==
    /\ \A i \in 1..Len(log) :
          (IsFixed(log[i]) /\ ~InRange(log[i])) =>
              /\ log[i].to - log[i].from = log[i].bytes
              /\ Written(log[i]) = [j \in 1..log[i].bytes |-> 255]
    /\ (HasRead /\ IsFixed(ReadItem) /\ ~InRange(ReadItem)) =>
          rlast.ret = MaxOfWidth(ReadItem.bytes)

C10_Witness ==
    /\ HasRead
    /\ ReadItem.op = "write16"
    /\ ReadItem.v = N(70000)
    /\ Written(ReadItem) = <<255, 255>>
    /\ rlast.ret = N(65535)

\* ------------------------------------------------------------------ C11

Min(a, b) == IF a < b THEN a ELSE b

\* C11: shrink(n) with n >= 0 sets size() to min(old size(), position() + n)
\* and never grows the view; it leaves position() as it was and returns the
\* new available(), which is min(n, old available()).
C11_ShrinkView ==
    (rlast.op = "shrink" /\ rlast.a >= 0) =>
        /\ BinaryReader_size(reader) =
              Min(BinaryReader_size(rlast.before), position(rlast.before) + rlast.a)
        /\ BinaryReader_size(reader) <= BinaryReader_size(rlast.before)
        /\ position(reader) = position(rlast.before)
        /\ rlast.ret = available(reader)
        /\ rlast.ret = Min(rlast.a, available(rlast.before))

C11_Witness ==
    /\ rlast.op = "shrink"
    /\ rlast.a = 1
    /\ BinaryReader_size(rlast.before) = 4
    /\ position(rlast.before) = 2
    /\ BinaryReader_size(reader) = 3
    /\ rlast.ret = 1

\* ------------------------------------------- bit reader: vocabulary

\* The cursor of a bit reader, in bits from the start of the buffer.
Cursor(b) == (b.position * 8) + b.bit

\* Bit j of the buffer in stream order: bit 0 is the top bit of byte 0.
StreamBit(b, j) == (b.data[(j \div 8) + 1] \div Pow2(7 - (j % 8))) % 2

\* The n <= 16 bits from bit j on as an unsigned integer, first bit highest.
RECURSIVE BitsInt(_, _, _)
BitsInt(b, j, n) ==
    IF n = 0 THEN 0
    ELSE (BitsInt(b, j, n - 1) * 2) + StreamBit(b, (j + n) - 1)

\* The n <= 32 bits at the cursor as an unsigned number.
BitsNum(b, n) ==
    IF n > 16
    THEN Num(BitsInt(b, Cursor(b), n - 16), BitsInt(b, (Cursor(b) + n) - 16, 16))
    ELSE Num(0, BitsInt(b, Cursor(b), n))

BitReads == {"read", "read8", "read16", "read24", "read32"}

\* The bits a call consumed.
Consumed == Cursor(bitr) - Cursor(blast.before)

\* The zero bits from bit j up to the first 1 bit or the end of the buffer.
RECURSIVE ZeroRunFrom(_, _)
ZeroRunFrom(b, j) ==
    IF j >= b.size * 8 \/ StreamBit(b, j) = 1 THEN 0
    ELSE 1 + ZeroRunFrom(b, j + 1)

ZeroRun(b) == ZeroRunFrom(b, Cursor(b))

\* A whole Exp-Golomb code is at the cursor: k zero bits, a 1 bit, k bits.
HasCode(b) == BitReader_available(b) >= (2 * ZeroRun(b)) + 1

\* The value of the code at the cursor, for k <= 16.
CodeValue(b) ==
    (BitsInt(b, Cursor(b) + ZeroRun(b) + 1, ZeroRun(b)) + Pow2(ZeroRun(b))) - 1

\* ------------------------------------------------------------------ C12

\* C12: read(n), 1 <= n <= 32, with at least n bits available returns the
\* unsigned integer whose binary representation is those n bits in stream
\* order, most-significant bit first, values >= 2^31 included, and advances
\* the cursor by n bits.
C12_BitReadsUnsigned ==
    (/\ blast.op \in BitReads
     /\ blast.a \in 1..32
     /\ BitReader_available(blast.before) >= blast.a) =>
        /\ blast.ret >= 0
        /\ Num(blast.ret \div 65536, blast.ret % 65536) =
              BitsNum(blast.before, blast.a)
        /\ Consumed = blast.a

\* ------------------------------------------------------------------ C13

\* C13: read(n) returns 0 whenever the buffer is exhausted before n bits have
\* been read, the case 0 < available() < n included.
C13_BitShortfallZero ==
    (/\ blast.op \in BitReads
     /\ blast.a >= 1
     /\ BitReader_available(blast.before) < blast.a) =>
        blast.ret = 0

\* ------------------------------------------------------------------ C14

GolombReads == {"readExpGolomb"}

C15_ExpGolombBounded ==
    (blast.op \in GolombReads /\ ZeroRun(blast.before) > 16) =>
        /\ blast.ret = 0
        /\ Consumed <= (2 * 16) + 1

\* ------------------------------------------------------------------ C16

\* C16: when the buffer ends before the code at the cursor is whole (in the
\* zero prefix, right after the 1 bit, or before the k suffix bits),
\* readExpGolomb returns 0.
C16_ExpGolombShortfallZero ==
    (blast.op \in GolombReads /\ ~HasCode(blast.before)) => blast.ret = 0

\* ------------------------------------------------------------------ C17

\* The string read back is the one written, and the reader is right after it.
StringReadBack ==
    /\ reader.status = "ok"
    /\ rlast.ret = log[1].v
    /\ position(reader) = log[1].to

\* The value written after the string is read back by the following read8.
TailReadBack ==
    /\ reader.status = "ok"
    /\ rlast.ret = log[2].v

HexByte(s, i) == (16 * HexDigit(s[i])) + HexDigit(s[i + 1])

AllHex(s) == \A i \in 1..Len(s) : HexDigit(s[i]) # -1

\* C18: writeHex(s) on a string of odd length reports an error and appends
\* nothing; on a string of 2n hex digits it appends exactly n bytes, byte i
\* being the value of digits 2i and 2i + 1.
C18_WriteHex ==
    /\ (wlast.op = "writeHex" /\ Len(wlast.a) % 2 = 1) =>
          /\ writer.status = "threw"
          /\ BinaryWriter_size(writer) = BinaryWriter_size(wlast.before)
          /\ BinaryWriter_data(writer) = BinaryWriter_data(wlast.before)
    /\ (/\ wlast.op = "writeHex"
        /\ Len(wlast.a) % 2 = 0
        /\ AllHex(wlast.a)
        /\ ~wlast.before.isConst) =>
          /\ writer.status = "ok"
          /\ BinaryWriter_size(writer) =
                BinaryWriter_size(wlast.before) + (Len(wlast.a) \div 2)
          /\ \A i \in 1..(Len(wlast.a) \div 2) :
                writer.data[BinaryWriter_size(wlast.before) + i] =
                    HexByte(wlast.a, (2 * i) - 1)

\* ------------------------------------------------------------------ C19

\* C19: value(pos) returns the byte at offset pos when 0 <= pos < size() and
\* 0 for every pos outside that range; it changes neither position() nor
\* size().
C19_ValuePeek ==
    (rlast.op = "value") =>
        /\ rlast.ret =
              IF rlast.a >= 0 /\ rlast.a < BinaryReader_size(rlast.before)
              THEN N(rlast.before.data[rlast.a + 1])
              ELSE N(0)
        /\ position(reader) = position(rlast.before)
        /\ BinaryReader_size(reader) = BinaryReader_size(rlast.before)

\* ------------------------------------------------------------------ C20

\* The WebSocket in use is connecting: its open event has not arrived.
Connecting(s) == ~s.closed /\ s.ws # 0 /\ s.socks[s.ws].state = "connecting"

\* The transmissions of the messages of a queue, in order, on WebSocket i.
Transmissions(queue, i) ==
    [k \in 1..Len(queue) |-> [ev |-> "send", ws |-> i, message |-> queue[k]]]

\* C20: a message passed to send() after open() and before the socket's open
\* event is queued and not transmitted; when the open event arrives, all
\* queued messages are passed to the socket's send in the order of the send()
\* calls, each exactly once, before onOpen is fired, after which the queue is
\* empty and the queued byte count is 0.
C20_QueueWhileConnecting ==
    /\ (slast.op = "send" /\ Connecting(slast.before)) =>
          /\ sock.status = "ok"
          /\ sock.queueing = Append(slast.before.queueing, slast.a.message)
          /\ sock.queueingBytes =
                slast.before.queueingBytes + Len(slast.a.message)
          /\ sock.trace = slast.before.trace
    /\ (slast.op = "onopen" /\ slast.a = slast.before.ws) =>
          /\ sock.trace =
                slast.before.trace
                    \o Transmissions(slast.before.queueing, slast.a)
                    \o <<[ev |-> "onOpen"]>>
          /\ sock.queueing = <<>>
          /\ sock.queueingBytes = 0

\* ------------------------------------------------------------------ C21

\* C21: closed is true on an instance built without url and never opened, and
\* after close() or a close event of a socket until the next open(); whenever
\* closed is true, send() throws and neither queues nor transmits the message:
\* the queue, the queued byte count and the transmissions are unchanged.
C21_SendOnClosed ==
    /\ (slast.op = "new" /\ sock.ws = 0) => sock.closed
    /\ (slast.op \in {"close", "onclose"}) => sock.closed
    /\ (slast.op = "send" /\ slast.before.closed) =>
          /\ sock.status = "threw"
          /\ sock.closed
          /\ sock.queueing = slast.before.queueing
          /\ sock.queueingBytes = slast.before.queueingBytes
          /\ sock.trace = slast.before.trace

C21_Witness ==
    /\ slast.op = "send"
    /\ slast.before.closed
    /\ slast.before.ws # 0
    /\ slast.before.socks[slast.before.ws].state = "closed"
    /\ sock.status = "threw"
    /\ sock.queueing = <<>>

\* ------------------------------------------------------------------ C22

\* The number of onClose events of a trace.
RECURSIVE OnCloseCount(_)
OnCloseCount(trace) ==
    IF trace = <<>> THEN 0
    ELSE (IF Head(trace).ev = "onClose" THEN 1 ELSE 0) + OnCloseCount(Tail(trace))

\* C22: onClose is fired once for an open(), by the first of close() and a
\* close event, and at most once for each open(); closed is true exactly
\* when the instance was never opened or onClose has fired since the last
\* open(); once close() has returned, or a close event was handled, opened is
\* false and the queue is empty; a further close() fires nothing, and the
\* socket that was closed delivers no event.
C22_CloseLifecycle ==
    /\ OnCloseCount(sock.trace) <= Len(sock.socks)
    /\ (slast.op \in {"close", "onclose"} /\ ~slast.before.closed) =>
          OnCloseCount(sock.trace) = OnCloseCount(slast.before.trace) + 1
    /\ (slast.op \in {"close", "onclose"} /\ slast.before.closed) =>
          sock.trace = slast.before.trace
    /\ (slast.op = "new") => (sock.closed <=> sock.ws = 0)
    /\ (slast.op = "open") => ~sock.closed
    /\ (slast.op \in {"close", "onclose"}) => sock.closed
    /\ (slast.op \in {"send", "flush", "onopen", "onmessage"}) =>
          (sock.closed <=> slast.before.closed)
    /\ (slast.op \in {"close", "onclose"}) =>
          /\ ~sock.opened
          /\ sock.queueing = <<>>
          /\ sock.queueingBytes = 0
    /\ (sock.closed /\ sock.ws # 0) => ~sock.socks[sock.ws].handlers


\* The calls made by the last raise: those numbered with its raise.
RaiseCalls(s) == SelectSeq(s.calls, LAMBDA c : c.raise = s.raises)

\* The call a raise owes to one subscription.
CallOf(entry, n, arg) == [f |-> entry.f, id |-> entry.id, raise |-> n, arg |-> arg]

\* The calls a raise owes to the default handler and to the subscriptions.
ExpectedCalls(s, arg) ==
    (IF s.defaultEvent # "undefined"
     THEN <<[f |-> s.defaultEvent, id |-> 0, raise |-> s.raises + 1, arg |-> arg]>>
     ELSE <<>>)
    \o [k \in 1..Len(s.events) |-> CallOf(s.events[k], s.raises + 1, arg)]

\* C23: a raise calls the default handler assigned at that time first and
\* once (none when it is undefined), then every subscription held at that
\* time once, in the order of subscription, all with the arguments of the
\* raise, and nothing else; assigning the default handler changes the default
\* only: the subscriptions and their order stay.
C23_DispatchOrder ==
    /\ elast.op = "raise" =>
          /\ em.calls = elast.before.calls \o ExpectedCalls(elast.before, elast.a)
          /\ em.defaultEvent = elast.before.defaultEvent
    /\ elast.op = "set" =>
          /\ em.defaultEvent = elast.a
          /\ em.events = elast.before.events
          /\ em.calls = elast.before.calls

\* A raise with a default handler assigned through the setter and with two
\* subscriptions, one of them from once().
C23_Witness ==
    /\ elast.op = "raise"
    /\ elast.before.defaultEvent = "h"
    /\ Len(elast.before.events) = 2
    /\ \E k \in 1..2 : elast.before.events[k].kind = "wrapper"
    /\ Len(RaiseCalls(em)) = 3

Subscribed(s, f) == \E k \in 1..Len(s.events) : s.events[k].f = f

\* C24: after off(name, f) no subscription of f is left, whether it was made
\* by on() or by once(); no subscription is left whose signal is aborted; no
\* subscription of once() is called by two raises; off() returns false
\* when f is not subscribed.
C24_Unsubscription ==
    /\ (elast.op = "off" /\ em.status = "ok") => ~Subscribed(em, elast.a.event)
    /\ \A k \in 1..Len(em.events) : em.events[k].signal \notin em.aborted
    /\ \A i, j \in 1..Len(em.calls) :
          (em.calls[i].id > 0 /\ em.calls[i].id = em.calls[j].id) => i = j
    /\ (elast.op = "off" /\ em.status = "ok"
            /\ ~Subscribed(elast.before, elast.a.event)) => elast.ret = FALSE


RECURSIVE SumOf(_)
SumOf(q) == IF q = <<>> THEN 0 ELSE Head(q) + SumOf(Tail(q))

\* C25: whatever was pushed, popped, cleared and read before, minimum and
\* maximum are the smallest and the largest value stored and average is
\* their mean (as a fraction: average * size = sum), and all three are 0 when
\* the collection is empty.
C25_Statistics ==
    LET q == nums.queue
        avg == average(nums).ret
    IN  /\ minimum(nums) = (IF q = <<>> THEN 0 ELSE MathMin(q))
        /\ maximum(nums) = (IF q = <<>> THEN 0 ELSE MathMax(q))
        /\ IF q = <<>> THEN avg.num = 0
           ELSE avg.num * Len(q) = SumOf(q) * avg.den


\* The bytes of the window at the time of the last call, before the call.
WindowBefore == updateSamples(tlast.before, tlast.now).bytes

\* C26: every addBytes(n), at any time from the construction or the last
\* clear() on, calls onBytes(n) once and adds n to the bytes of the window as
\* it is at that time; so addBytes(1000) on a new meter of interval 1000
\* gives value() 1000 when read 1000 ms later; after clear() value() is 0.
C26_ByteAccounting ==
    /\ tlast.op = "addBytes" =>
          /\ rate.onBytes = Append(tlast.before.onBytes, tlast.a)
          /\ rate.bytes = FracAdd(WindowBefore, Frac(tlast.a, 1))
    /\ (tlast.op = "tick" /\ tlast.a = 1000 /\ Now = 1000 /\ rate.interval = 1000
            /\ rate.onBytes = <<1000>>) => ByteRate_value(rate, Now).ret = 1000
    /\ tlast.op = "clear" => ByteRate_value(rate, Now).ret = 0

\* The same for addBytes() later than the construction and the last clear().
C26_ByteAccountingLater ==
    /\ (tlast.op = "addBytes" /\ (tlast.now > tlast.before.time
                                    \/ tlast.before.samples # <<>>)) =>
          /\ rate.onBytes = Append(tlast.before.onBytes, tlast.a)
          /\ rate.bytes = FracAdd(WindowBefore, Frac(tlast.a, 1))
    /\ tlast.op = "clear" => ByteRate_value(rate, Now).ret = 0


\* The bytes a varint takes from position p on, of at most n bytes and within
\* the view: up to and with the first byte whose top bit is clear.
RECURSIVE VarintSpan(_, _, _)
VarintSpan(r, p, n) ==
    IF n = 0 \/ p >= r.size THEN 0
    ELSE IF r.data[p + 1] < 128 THEN 1
    ELSE 1 + VarintSpan(r, p + 1, n - 1)

\* C27: read7Bit(maxBytes), maxBytes in 1..5, does not throw, whatever the
\* bytes and however few are left, and moves the cursor over the bytes up to
\* and with the first one whose top bit is clear, over maxBytes bytes at most
\* and never past the end.
C27_VarintReadBound ==
    (rlast.op = "read7Bit" /\ rlast.a \in 1..5) =>
        /\ reader.status = "ok"
        /\ position(reader) - position(rlast.before) <= rlast.a
        /\ position(rlast.before) >= 0 =>
              position(reader) - position(rlast.before) =
                  VarintSpan(rlast.before, position(rlast.before), rlast.a)

\* The same from a cursor within the view: 0 <= position() <= size().
C27_VarintReadBoundInside ==
    (rlast.op = "read7Bit" /\ rlast.a \in 1..5 /\ position(rlast.before) >= 0
        /\ position(rlast.before) <= BinaryReader_size(rlast.before)) =>
        /\ reader.status = "ok"
        /\ position(reader) - position(rlast.before) <= rlast.a
        /\ position(reader) - position(rlast.before) =
              VarintSpan(rlast.before, position(rlast.before), rlast.a)


\* C28: in every state of a bit reader the bit offset is in 0..7 and
\* available() = (size - position) * 8 - bit offset is in 0..8 * size; next(n)
\* with n >= 0 returns min(n, available()) and takes exactly that many bits
\* off available().
C28_BitCursorAccounting ==
    /\ bitr.bit \in 0..7
    /\ BitReader_available(bitr) = ((bitr.size - bitr.position) * 8) - bitr.bit
    /\ BitReader_available(bitr) >= 0
    /\ BitReader_available(bitr) <= 8 * BitReader_size(bitr)
    /\ (blast.op = "next" /\ blast.a >= 0) =>
          /\ blast.ret = Min(blast.a, BitReader_available(blast.before))
          /\ BitReader_available(bitr) = BitReader_available(blast.before) - blast.ret

\* next(8) from inside a byte, and next(32) with fewer bits left, after a read.
C28_Witness ==
    \/ /\ blast.op = "next"
       /\ blast.a = 8
       /\ blast.before.bit = 3
       /\ blast.ret = 8
       /\ bitr.bit = 3
       /\ bitr.position = blast.before.position + 1
    \/ /\ blast.op = "next"
       /\ blast.a = 32
       /\ blast.before.bit # 0
       /\ blast.ret \in 1..31
       /\ BitReader_available(bitr) = 0


\* C29: a fixed-width read with 0 < available() < width moves position() to
\* size(), so that available() is 0 afterwards; read(n) with available() < n
\* leaves position() and size() as they were; a read of width w that finds
\* its w bytes moves position() by exactly w. No read changes size().
C29_ShortReadCursor ==
    /\ (rlast.op \in FixedReads /\ available(rlast.before) > 0
            /\ available(rlast.before) < rlast.a) =>
          /\ position(reader) = BinaryReader_size(rlast.before)
          /\ BinaryReader_size(reader) = BinaryReader_size(rlast.before)
          /\ available(reader) = 0
    /\ (rlast.op = "read" /\ available(rlast.before) < rlast.a) =>
          /\ position(reader) = position(rlast.before)
          /\ BinaryReader_size(reader) = BinaryReader_size(rlast.before)
    /\ (rlast.op \in FixedReads \cup {"read"} /\ rlast.a >= 0
            /\ available(rlast.before) >= rlast.a) =>
          /\ position(reader) = position(rlast.before) + rlast.a
          /\ BinaryReader_size(reader) = BinaryReader_size(rlast.before)

\* read16() with one byte left after a read of three bytes, and read(9)
\* with fewer bytes left.
C29_Witness ==
    \/ /\ rlast.op = "read16"
       /\ position(rlast.before) = 3
       /\ available(rlast.before) = 1
       /\ position(reader) = 4
       /\ available(reader) = 0
    \/ /\ rlast.op = "read"
       /\ rlast.a = 9
       /\ position(rlast.before) = 1
       /\ available(rlast.before) \in 1..8
       /\ position(reader) = 1


\* The last step is an event of a WebSocket that a later open() has replaced.
StaleEvent ==
    /\ slast.op \in {"onopen", "onclose", "onmessage"}
    /\ slast.a # slast.before.ws

\* C30: every message handed to the send method of a WebSocket finds that
\* WebSocket open (its open event has fired and it is not closed); an event
\* of a replaced WebSocket changes neither opened nor closed and does not
\* flush the queue of the connection in use.
C30_TransmitOnOpenOnly ==
    /\ \A k \in 1..Len(sock.handed) : sock.handed[k].state = "open"
    /\ StaleEvent =>
          /\ sock.opened = slast.before.opened
          /\ sock.closed = slast.before.closed
          /\ sock.queueing = slast.before.queueing
          /\ sock.queueingBytes = slast.before.queueingBytes

\* The same with one WebSocket at most and no flush() before its open event.
C30_SingleSocket ==
    (slast.op # "new" /\ Len(sock.socks) <= 1
        /\ ~(slast.op = "flush" /\ Connecting(slast.before))) =>
        \A k \in (Len(slast.before.handed) + 1)..Len(sock.handed) :
            sock.handed[k].state = "open"

====
